---------------------------- MODULE Spec2Model ----------------------------
(***************************************************************************)
(* A model of dcc-ex-go: the session gate (channel.Channel), the protocol  *)
(* listener with its subscription registry (protocol.Protocol) and the     *)
(* entity operations that run on them (Cab.Speed, Sensor.Persist,          *)
(* TurnoutServo.Examine, Sensor.Wait, CommandStation.Console).             *)
(*                                                                         *)
(* Every goroutine of the program is a process of the model:               *)
(*   - the caller's goroutine of each operation             (pc)           *)
(*   - the listener                                         (lst)          *)
(*   - one relay goroutine per subscription                 (relay)        *)
(*   - one goroutine per ReadOpCode / ReadCommand call      (rpc)          *)
(*   - the goroutine that writes inside an errgroup         (wr)           *)
(* Unbuffered Go channels are rendezvous: a send and its receive are one   *)
(* action, enabled when both sides are ready. A critical section that      *)
(* cannot block is one action guarded by its lock being free.              *)
(* The device is the environment: it may emit any frame at any time.       *)
(***************************************************************************)
EXTENDS Integers, Sequences, FiniteSets, TLC

(***************************************************************************)
(* Bounds of the model.                                                    *)
(***************************************************************************)
\* how many operations each caller starts
MaxOps == 1
\* how many frames the device emits
MaxFrames == 2

Callers == {"c1", "c2"}
None == "none"

\* The operations a caller may run.
OpKinds == {"speed", "persist", "examine", "wait", "console", "ready", "close",
            "status", "cabs", "active", "consistent", "callback"}
\* In Spec one caller creates sensors and drives cabs while the other
\* examines turnouts and waits for sensors.
Program(c) == IF c = "c1" THEN {"persist", "speed"} ELSE {"examine", "wait"}
\* In SubSpec one caller waits for sensors while the other holds a console.
SubProgram(c) == IF c = "c1" THEN {"wait"} ELSE {"console"}
\* In WriteSpec both callers set a cab's speed: one Protocol.Write each.
WriteProgram(c) == {"speed"}
\* In StatusSpec one caller asks for the station's status, the other for the
\* number of supported cabs.
StatusProgram(c) == IF c = "c1" THEN {"status"} ELSE {"cabs"}
\* In ActiveSpec one caller asks whether its sensor is active while the
\* other waits for the sensor's activation.
ActiveProgram(c) == IF c = "c1" THEN {"active"} ELSE {"wait"}
\* In PersistSpec one caller creates and saves its sensor while the other
\* waits for a sensor's activation.
PersistProgram(c) == IF c = "c1" THEN {"persist"} ELSE {"wait"}
\* In ConsistentSpec one caller waits for its sensor to stay active while the
\* other watches the sensor with a callback.
ConsistentProgram(c) == IF c = "c1" THEN {"consistent"} ELSE {"callback"}
\* In GateSpec one caller waits for the station to be ready while the other
\* closes the connection.
GateProgram(c) == IF c = "c1" THEN {"ready"} ELSE {"close"}

(***************************************************************************)
(* Frames: a command is its opcode followed by its parameters.             *)
(***************************************************************************)
OpCodeFail == "X"
OpCodeSuccess == "O"
OpCodeTurnoutResponse == "H"
StateActive == "Q"

FrameFail == <<"X">>
FrameSuccess == <<"O">>
FrameTurnoutResponse == <<"H", "1">>
FrameSensorActive == <<"Q", "7">>
\* what the device may emit
DeviceFrames == {FrameFail, FrameSuccess, FrameTurnoutResponse, FrameSensorActive}

\* the frames the operations write
FrameCabSpeed == <<"t", "3">>
FrameSensorCreate == <<"S", "7">>
FrameEEPROM == <<"E">>
FrameTurnoutExamine == <<"T", "99", "X">>
FrameConsole == <<"1">>
\* the broadcast of a station that is ready
FrameReady == <<"@", "0", "3", "Ready">>
\* CommandStation.Status and SupportedCabs: the request and the station's reply
OpCodeStatusResponse == "i"
OpCodeStationSupportedCabs == "#"
FrameStatusRequest == <<"s">>
FrameStatus ==
    <<OpCodeStatusResponse, "DCC-EX", "V-5.4.0", "/", "MEGA", "/", "EX8874", "G-c389fe9">>
FrameCabsRequest == <<OpCodeStationSupportedCabs>>
FrameCabs == <<OpCodeStationSupportedCabs, "50">>
NoFrame == <<>>

\* Sensor.Active: the id of the library's sensor, the activation of another
\* sensor, and the control frame NewControlCommand(StateActive.OpCode()),
\* whose parameter is the invalid text "><" followed by a lightning sign
SensorId == "7"
StateInactive == "q"
FrameSensorInactive == <<StateInactive, "7">>
FrameSensorOther == <<StateActive, "8">>
\* what the sensors report in ConsistentSpec
SensorFrames == {FrameSensorActive, FrameSensorInactive, FrameSensorOther}
FrameControl == <<StateActive, "><">>
\* what the station answers to the control frame: the activation of every
\* active sensor, then X for the invalid rest
ActiveReplies ==
    {<<FrameFail>>, <<FrameSensorActive, FrameFail>>, <<FrameSensorOther, FrameFail>>,
     <<FrameSensorOther, FrameSensorActive, FrameFail>>}

\* what the station sends back when it has received the frame: its reply
\* waits on the transport until the listener reads it
Device(f) ==
    CASE f = FrameStatusRequest -> <<FrameStatus>>
      [] f = FrameCabsRequest -> <<FrameCabs>>
      [] OTHER -> <<>>

OpCode(f) == f[1]

(***************************************************************************)
(* Errors: an error is the chain of its message and of the errors it       *)
(* wraps, outermost first; nil is the empty chain.                         *)
(***************************************************************************)
NoError == <<>>
EBADF == "bad file descriptor"
EIO == "input/output error"
\* errors.Is(err, target)
ErrorsIs(err, target) == \E i \in 1..Len(err) : err[i] = target
\* fmt.Errorf("...: %w", err)
Wrap(msg, err) == <<msg>> \o err
\* what a failing port.Write may return: EBADF itself, EBADF inside an
\* *os.PathError, or another error
PortErrors == {<<EBADF>>, <<"write /dev/ttyACM0", EBADF>>, <<EIO>>}

(***************************************************************************)
(* Subscriptions. Each ReadOpCode / ReadCommand / Read call creates one    *)
(* Subscription; a caller has at most two alive at a time: the failure     *)
(* watcher's ("w") and the body's reader ("r").                            *)
(***************************************************************************)
Subs == Callers \X {"w", "r"}
W(c) == <<c, "w">>
R(c) == <<c, "r">>
Owner(s) == s[1]

VARIABLES
    \* channel.Channel
    sessionLock,    \* the holder of Channel.sessionLock, or None
    commandCache,   \* readWriteCloserCache.commandCache
    written,        \* the frames the transport accepted, in order, each with its session
    \* the callers
    pc,             \* where each caller's goroutine is
    op,             \* the operation it runs
    nops,           \* how many operations it has started
    ctxCancelled,   \* whether the context it passed is cancelled
    result,         \* what its last operation returned
    errNamed,       \* the frame the returned failure error names
    \* errgroups of SessionSuccess (g) and of the body (i)
    earlyCancelled, \* earlyCancel() was called
    gCancelled,     \* the context of SessionSuccess's errgroup is cancelled
    gErr,           \* the first error of SessionSuccess's errgroup
    bodyDone,       \* sessionF has returned
    iCancelled,     \* the context of the body's errgroup is cancelled
    iErr,           \* the first error of the body's errgroup
    wr,             \* the writing goroutine of the body's errgroup
    \* ReadOpCode / ReadCommand / Read callers
    rpc,            \* where each reading call is
    rres,           \* what it returns
    \* protocol.Subscription and the registry
    reg,            \* Protocol.subscriptions (the keys)
    relay,          \* the relay goroutine of Protocol.Read
    held,           \* the command the relay carries from ingressC to egressC
    rcancel,        \* the relay's context is cancelled
    cancelledC,     \* subscriptions whose cancelledC is closed
    egressClosed,   \* subscriptions whose egressC is closed
    ingressClosed,  \* subscriptions whose ingressC is closed
    \* the listener
    lst,            \* "read": in port.Read; "dispatch": in notifyF, holding subscriptionLock
    lframe,         \* the command notifyF dispatches
    ltodo,          \* the subscriptions its range loop has not visited yet
    emitted,        \* how many frames the device has emitted
    \* history
    xBeforeF,       \* the watcher received X while sessionF had not returned
    xDuring,        \* an X frame was dispatched during the caller's SessionSuccess
    wroteIn,        \* the last frame written within the caller's session
    crashed,        \* a goroutine panicked and the process died
    \* the transport (io.ReadWriteCloser) and the listener's start and end
    pending,        \* the frames waiting on the transport to be read
    portClosed,     \* port.Close() was called
    portErr,        \* the error port.Write returns when it fails
    firstSubscriber,\* the firstSubscriber channel is closed
    \* more of the callers
    writeErr,       \* what Protocol.Write returned to the caller last
    isActive,       \* Sensor.Active's local isActive
    \* history of the subscriptions whose egress the caller reads itself
    due,            \* the frames parsed while the subscription was registered
    got,            \* the frames the caller received from its egress
    \* Sensor.WaitConsistent and Sensor.SetCallback
    timer,          \* WaitConsistent's time.Timer
    invoked,        \* how often SetCallback's callback was invoked
    \* the command codec, applied to one input
    stage,          \* how far the input has gone through the codec
    command,        \* the string handed to NewCommandFromString
    parsed,         \* what NewCommandFromString returned for it
    wireForm,       \* parsed.String()
    reparsed,       \* what NewCommandFromString returned for wireForm
    wireForm2,      \* reparsed.String()
    \* Protocol.Write, byte by byte
    writeLock,      \* the caller holding p.writeLock
    transport,      \* the bytes the transport has received, each with its frame
    wpc,            \* where each caller is in Protocol.Write
    wnext,          \* the index of the frame the caller writes next
    woff,           \* how many bytes of the frame port.Write has handed over
    \* the listener's framing of the byte stream
    stream,         \* the bytes the transport has still to hand to port.Read
    consumed,       \* the bytes port.Read has returned
    commandRunes,   \* listen's commandRunes
    commandReading, \* listen's commandReading
    notified,       \* the strings listen has passed to notifyF
    dispatched      \* the commands notifyF has sent to the subscriptions

gateVars == <<sessionLock, commandCache, written>>
callerVars == <<pc, op, nops, ctxCancelled, result, errNamed>>
groupVars == <<earlyCancelled, gCancelled, gErr, bodyDone, iCancelled, iErr, wr>>
readerVars == <<rpc, rres>>
subVars == <<reg, relay, held, rcancel, cancelledC, egressClosed, ingressClosed>>
listenerVars == <<lst, lframe, ltodo, emitted>>
histVars == <<xBeforeF, xDuring, wroteIn, crashed>>
portVars == <<pending, portClosed, portErr>>
traceVars == <<due, got>>
moreVars == <<timer, invoked>>
codecVars == <<stage, command, parsed, wireForm, reparsed, wireForm2>>
wireVars == <<writeLock, transport, wpc, wnext, woff>>
frameVars == <<stream, consumed, commandRunes, commandReading, notified, dispatched>>
pureVars == <<codecVars, wireVars, frameVars>>
lifeVars == <<portVars, firstSubscriber, writeErr, isActive, traceVars, moreVars,
              pureVars>>
vars == <<gateVars, callerVars, groupVars, readerVars, subVars, listenerVars, histVars,
          lifeVars>>

\* everything but the configuration of the listener and of the transport
InitState ==
    /\ sessionLock = None
    /\ commandCache = NoFrame
    /\ written = <<>>
    /\ pc = [c \in Callers |-> "idle"]
    /\ op = [c \in Callers |-> None]
    /\ nops = [c \in Callers |-> 0]
    /\ ctxCancelled = [c \in Callers |-> FALSE]
    /\ result = [c \in Callers |-> None]
    /\ errNamed = [c \in Callers |-> NoFrame]
    /\ earlyCancelled = [c \in Callers |-> FALSE]
    /\ gCancelled = [c \in Callers |-> FALSE]
    /\ gErr = [c \in Callers |-> None]
    /\ bodyDone = [c \in Callers |-> FALSE]
    /\ iCancelled = [c \in Callers |-> FALSE]
    /\ iErr = [c \in Callers |-> None]
    /\ wr = [c \in Callers |-> None]
    /\ rpc = [s \in Subs |-> "idle"]
    /\ rres = [s \in Subs |-> None]
    /\ reg = {}
    /\ relay = [s \in Subs |-> None]
    /\ held = [s \in Subs |-> NoFrame]
    /\ rcancel = {}
    /\ cancelledC = {}
    /\ egressClosed = {}
    /\ ingressClosed = {}
    /\ lframe = NoFrame
    /\ ltodo = {}
    /\ emitted = 0
    /\ xBeforeF = [c \in Callers |-> FALSE]
    /\ xDuring = [c \in Callers |-> FALSE]
    /\ wroteIn = [c \in Callers |-> NoFrame]
    /\ crashed = FALSE
    /\ portClosed = FALSE
    /\ firstSubscriber = FALSE
    /\ writeErr = [c \in Callers |-> NoError]
    /\ isActive = [c \in Callers |-> FALSE]
    /\ due = [s \in Subs |-> <<>>]
    /\ got = [s \in Subs |-> <<>>]
    /\ timer = [c \in Callers |-> "idle"]
    /\ invoked = [c \in Callers |-> 0]
    /\ parsed = None
    /\ wireForm = <<>>
    /\ reparsed = None
    /\ wireForm2 = <<>>
    /\ writeLock = None
    /\ transport = <<>>
    /\ wpc = [c \in Callers |-> "idle"]
    /\ wnext = [c \in Callers |-> 1]
    /\ woff = [c \in Callers |-> 0]
    /\ consumed = <<>>
    /\ commandRunes = <<>>
    /\ commandReading = FALSE
    /\ notified = <<>>
    /\ dispatched = <<>>

\* the codec is given no input, the transport holds no bytes
NoInput ==
    /\ stage = "off"
    /\ command = <<>>
    /\ stream = <<>>

\* RequireSubscriber = false: the listener goes straight to port.Read;
\* nothing waits on the transport; a failing write fails with EIO
Init ==
    /\ InitState
    /\ NoInput
    /\ lst = "read"
    /\ pending = <<>>
    /\ portErr = <<EIO>>


(***************************************************************************)
(* Contexts and what each reading call waits for.                          *)
(***************************************************************************)
\* the context of SessionSuccess's errgroup: a child of earlyCancelCtx,
\* itself a child of the caller's context
GroupCtxDone(c) == ctxCancelled[c] \/ earlyCancelled[c] \/ gCancelled[c]

\* the context a ReadOpCode / ReadCommand call selects on
ReaderCtxDone(s) ==
    IF s = W(Owner(s))
    THEN GroupCtxDone(Owner(s))
    ELSE GroupCtxDone(Owner(s)) \/ iCancelled[Owner(s)]

Matches_mutFirstFrame(s, f) == TRUE
\* the frame that makes the reading call return: ReadOpCode compares the
\* opcode, ReadCommand the whole serialized command; Read (console) returns
\* every frame to its user and never ends by itself
Matches(s, f) ==
    LET k == op[Owner(s)] IN
    IF s = W(Owner(s)) THEN OpCode(f) = OpCodeFail
    ELSE CASE k = "examine" -> OpCode(f) = OpCodeTurnoutResponse
           [] k = "persist" -> OpCode(f) = OpCodeSuccess
           [] k = "wait" -> f = FrameSensorActive
           [] k = "ready" -> f = FrameReady
           [] k = "status" -> OpCode(f) = OpCodeStatusResponse
           [] k = "cabs" -> OpCode(f) = OpCodeStationSupportedCabs
           [] k = "active" -> OpCode(f) = OpCodeFail
           [] OTHER -> FALSE

\* the caller is between sessionLock.Lock() and the deferred Unlock of
\* Session / SessionSuccess
InSession(c) ==
    pc[c] \in {"write1", "wait_i", "wait_g", "read", "close", "latch", "a_read",
               "a_loop", "a_cleanup", "unlock"}

\* the subscriptions made by Read() for a caller that receives from the
\* egress itself (Console's user, Sensor.Active); their history is kept
Traced(s) ==
    /\ s = R(Owner(s))
    /\ op[Owner(s)] \in {"console", "active", "status", "cabs", "consistent", "callback"}

SubscriptionLockFree_mutNoLock == TRUE
\* Protocol.subscriptionLock is held by the listener for the whole of
\* notifyF's loop; every other critical section is one action
SubscriptionLockFree == lst # "dispatch"

SessionLockFree_mutNoExclusion == TRUE
\* sync.Mutex.Lock returns when no one holds the mutex
SessionLockFree == sessionLock = None

FirstError(old, new) == IF old = None THEN new ELSE old

(***************************************************************************)
(* Protocol.Read: registration, the relay goroutine and cleanup.           *)
(***************************************************************************)
firstSubscriberF_mutNoop == firstSubscriber
\* p.firstSubscriberF(), a sync.OnceFunc closing firstSubscriber: the channel
\* is closed afterwards
firstSubscriberF == TRUE

\* Read(): insert the new Subscription under the lock, call firstSubscriberF
\* and start the relay
Read_register(s) ==
    /\ rpc[s] = "reg"
    /\ SubscriptionLockFree
    /\ reg' = reg \cup {s}
    /\ relay' = [relay EXCEPT ![s] = "recv"]
    /\ rpc' = [rpc EXCEPT ![s] = "loop"]
    /\ firstSubscriber' = firstSubscriberF
    /\ UNCHANGED <<pureVars, gateVars, callerVars, groupVars, rres, held, rcancel,
                   cancelledC, egressClosed, ingressClosed, listenerVars, histVars,
                   portVars, writeErr, isActive, traceVars,
                   moreVars>>

\* what cleanup leaves in the registry
cleanup_registry_mutKeep(s) == reg
cleanup_registry(s) == reg \ {s}

\* cleanup, after cancel(): the relay's select sees ctx.Done() and returns,
\* dropping the command it may carry; wg.Wait() returns; close(egressC);
\* close(cancelledC). Until then the relay may still take a command from
\* ingressC (notifyF_send).
cleanup_close(s) ==
    /\ rpc[s] = "cl_wait"
    /\ s \in rcancel
    /\ relay[s] \in {"recv", "send"}
    /\ relay' = [relay EXCEPT ![s] = "done"]
    /\ held' = [held EXCEPT ![s] = NoFrame]
    /\ egressClosed' = egressClosed \cup {s}
    /\ cancelledC' = cancelledC \cup {s}
    /\ rpc' = [rpc EXCEPT ![s] = "cl_lock"]
    /\ UNCHANGED <<gateVars, callerVars, groupVars, rres, reg, rcancel,
                   ingressClosed, listenerVars, histVars, lifeVars>>

\* cleanup, under subscriptionLock: close(ingressC); delete(subscriptions, uuid)
cleanup_delete(s) ==
    /\ rpc[s] = "cl_lock"
    /\ SubscriptionLockFree
    /\ ingressClosed' = ingressClosed \cup {s}
    /\ reg' = cleanup_registry(s)
    /\ rpc' = [rpc EXCEPT ![s] = "ret"]
    /\ UNCHANGED <<gateVars, callerVars, groupVars, rres, relay, held, rcancel,
                   cancelledC, egressClosed, listenerVars, histVars, lifeVars>>

(***************************************************************************)
(* ReadOpCode / ReadCommand: the loop over the subscription's egress.      *)
(***************************************************************************)
RelayAfterSend_mutResend(s) == <<"send", held[s]>>
\* the relay after its send on egressC: back in its outer select, carrying
\* nothing
RelayAfterSend(s) == <<"recv", NoFrame>>

\* case cmd := <-commandC, the relay being in its send on egressC.
\* A matching frame ends the call: the deferred cleanup starts with cancel().
\* Sensor.WaitConsistent's timer. "idle": expired, its channel read; "armed":
\* running; "fired": expired, the expiry receivable from timer.C; "stopped".
\* Stop and Reset leave no earlier expiry receivable (the timers of Go 1.23).
Timer_stop_mutStale(tm) == IF tm = "fired" THEN "fired" ELSE "stopped"
Timer_stop(tm) == "stopped"

Timer_reset(tm) == "armed"

\* WaitConsistent's case cmd := <-commandC, for state = StateActive
Timer_after(tm, f) ==
    IF f = FrameSensorActive THEN Timer_reset(tm)
    ELSE IF f = FrameSensorInactive THEN Timer_stop(tm)
    ELSE tm

Callback_match_mutAnyState(f) == f \in {FrameSensorActive, FrameSensorInactive}
\* SetCallback's watcher: cmd.String() == stateCommand.String()
Callback_match(f) == f = FrameSensorActive

Active_match_mutAnyId(f) == OpCode(f) = StateActive
\* Sensor.Active: cmd.OpCode() == StateActive.OpCode() with the one parameter
\* strconv.FormatUint(uint64(s.id), 10)
Active_match(f) == OpCode(f) = StateActive /\ Len(f) - 1 = 1 /\ f[0 + 2] = SensorId

\* the caller's select receives from egress: ReadOpCode / ReadCommand,
\* Console's user, Sensor.Active's loop (which sets isActive)
Reader_recv(s) ==
    /\ rpc[s] = "loop"
    /\ relay[s] = "send"
    /\ op[Owner(s)] = "console" => pc[Owner(s)] = "user"
    /\ op[Owner(s)] = "active" => pc[Owner(s)] = "a_loop"
    /\ isActive' = IF op[Owner(s)] = "active" /\ Active_match(held[s])
                   THEN [isActive EXCEPT ![Owner(s)] = TRUE] ELSE isActive
    /\ relay' = [relay EXCEPT ![s] = RelayAfterSend(s)[1]]
    /\ held' = [held EXCEPT ![s] = RelayAfterSend(s)[2]]
    /\ IF Matches(s, held[s])
       THEN /\ rpc' = [rpc EXCEPT ![s] = "cl_wait"]
            /\ rres' = [rres EXCEPT ![s] = "ok"]
            /\ rcancel' = rcancel \cup {s}
       ELSE UNCHANGED <<rpc, rres, rcancel>>
    /\ xBeforeF' = [xBeforeF EXCEPT ![Owner(s)] =
                       @ \/ (s = W(Owner(s)) /\ Matches(s, held[s])
                             /\ ~bodyDone[Owner(s)])]
    /\ got' = IF Traced(s) THEN [got EXCEPT ![s] = Append(@, held[s])] ELSE got
    /\ timer' = IF op[Owner(s)] = "consistent"
                THEN [timer EXCEPT ![Owner(s)] = Timer_after(@, held[s])] ELSE timer
    /\ invoked' = IF op[Owner(s)] = "callback" /\ Callback_match(held[s])
                  THEN [invoked EXCEPT ![Owner(s)] = @ + 1] ELSE invoked
    /\ UNCHANGED <<pureVars, gateVars, callerVars, groupVars, reg, cancelledC, egressClosed,
                   ingressClosed, listenerVars, xDuring, wroteIn, crashed,
                   portVars, firstSubscriber, writeErr, due>>

\* case <-ctx.Done(): return ctx.Err(); the deferred cleanup starts with cancel()
Reader_ctxDone(s) ==
    /\ rpc[s] = "loop"
    /\ op[Owner(s)] # "console"
    /\ op[Owner(s)] = "active" => pc[Owner(s)] = "a_loop"
    /\ ReaderCtxDone(s)
    /\ rpc' = [rpc EXCEPT ![s] = "cl_wait"]
    /\ rres' = [rres EXCEPT ![s] = "ctx"]
    /\ rcancel' = rcancel \cup {s}
    /\ UNCHANGED <<gateVars, callerVars, groupVars, reg, relay, held, cancelledC,
                   egressClosed, ingressClosed, listenerVars, histVars, lifeVars>>

(***************************************************************************)
(* The listener: port.Read and notifyF.                                    *)
(***************************************************************************)
\* notifyF holds subscriptionLock until its range loop has visited every
\* subscription, then unlocks and the listener is back in port.Read
AfterVisit(todo) == IF todo = {} THEN "read" ELSE "dispatch"

\* port.Read returns a frame of the device; notifyF locks the registry and
\* starts to range over it
notifyF_range_mutSkipBusy == {s \in reg : relay[s] = "recv"}
\* the subscriptions notifyF sends the command to: all of the registry
notifyF_range == reg

listen_parse(f) ==
    /\ lst = "read"
    /\ ~portClosed
    /\ emitted' = emitted + 1
    /\ lst' = AfterVisit(notifyF_range)
    /\ lframe' = f
    /\ ltodo' = notifyF_range
    /\ xDuring' = [c \in Callers |->
                     xDuring[c] \/ (OpCode(f) = OpCodeFail /\ op[c] = "examine"
                                    /\ InSession(c))]
    /\ due' = [s \in Subs |->
                 IF s \in reg /\ Traced(s) THEN Append(due[s], f) ELSE due[s]]
    /\ UNCHANGED <<pureVars, gateVars, callerVars, groupVars, readerVars, subVars,
                   xBeforeF, wroteIn, crashed, portClosed, portErr,
                   firstSubscriber, writeErr, isActive, got, moreVars>>

\* nothing waits on the transport: port.Read returns the frame the device
\* emits now
listen_read(f) ==
    /\ pending = <<>>
    /\ emitted < MaxFrames
    /\ listen_parse(f)
    /\ UNCHANGED pending

\* port.Read returns the frame that has waited longest on the transport
listen_read_pending ==
    /\ pending # <<>>
    /\ listen_parse(Head(pending))
    /\ pending' = Tail(pending)

\* select case subscription.ingressC <- command, the relay being in its receive
notifyF_send(s) ==
    /\ lst = "dispatch"
    /\ s \in ltodo
    /\ relay[s] = "recv"
    /\ relay' = [relay EXCEPT ![s] = "send"]
    /\ held' = [held EXCEPT ![s] = lframe]
    /\ ltodo' = ltodo \ {s}
    /\ lst' = AfterVisit(ltodo')
    /\ UNCHANGED <<gateVars, callerVars, groupVars, readerVars, reg, rcancel,
                   cancelledC, egressClosed, ingressClosed, lframe, emitted,
                   histVars, lifeVars>>

notifyF_cancelled_mutNoFlag(s) == FALSE /\ UNCHANGED vars
\* select case <-subscription.cancelledC
notifyF_cancelled(s) ==
    /\ lst = "dispatch"
    /\ s \in ltodo
    /\ s \in cancelledC
    /\ ltodo' = ltodo \ {s}
    /\ lst' = AfterVisit(ltodo')
    /\ UNCHANGED <<gateVars, callerVars, groupVars, readerVars, subVars,
                   lframe, emitted, histVars, lifeVars>>


GateOpen_mutNoGate == TRUE
\* <-firstSubscriber returns when the channel is closed
GateOpen == firstSubscriber

\* RequireSubscriber = true: the listener waits for the first subscriber
\* before its first port.Read
listen_gate ==
    /\ lst = "gate"
    /\ GateOpen
    /\ lst' = "read"
    /\ UNCHANGED <<gateVars, callerVars, groupVars, readerVars, subVars, lframe,
                   ltodo, emitted, histVars, lifeVars>>

\* port.Read returns an error, the transport being closed: the listener
\* returns and its deferred close(p.listenerExitC) runs
listen_exit ==
    /\ lst = "read"
    /\ portClosed
    /\ lst' = "exited"
    /\ UNCHANGED <<gateVars, callerVars, groupVars, readerVars, subVars, lframe,
                   ltodo, emitted, histVars, lifeVars>>

(***************************************************************************)
(* The callers.                                                            *)
(***************************************************************************)
\* whether the operation passes a context
TakesCtx(k) ==
    k \in {"persist", "examine", "wait", "ready", "status", "cabs", "active",
           "consistent"}

\* the tag of a write: the session it is written in, or 0 outside a session
\* (the WriteF that Console hands out)
SessionTag(c) == IF InSession(c) THEN <<c, nops[c]>> ELSE <<c, 0>>

\* a caller starts an operation. Session and SessionSuccess begin with
\* sessionLock.Lock(); RSession calls its body at once.
RSession_entry_mutLock(k) == "lock"
RSession_entry(k) ==
    IF k \in {"wait", "ready", "consistent", "callback"} THEN "rsession" ELSE "lock"

Call(c, k) ==
    /\ pc[c] = "idle"
    /\ nops[c] < MaxOps
    /\ op' = [op EXCEPT ![c] = k]
    /\ nops' = [nops EXCEPT ![c] = @ + 1]
    /\ pc' = [pc EXCEPT ![c] = RSession_entry(k)]
    /\ result' = [result EXCEPT ![c] = None]
    /\ rpc' = IF RSession_entry(k) = "rsession"
              THEN [rpc EXCEPT ![R(c)] = "reg"] ELSE rpc
    /\ UNCHANGED <<gateVars, ctxCancelled, errNamed, groupVars, rres, subVars,
                   listenerVars, histVars, lifeVars>>

\* the environment cancels the context the caller passed. The context is
\* first looked at by a reading call's select, so a cancellation before
\* that is one at that point.
CancelCtx(c) ==
    /\ TakesCtx(op[c])
    /\ pc[c] \in {"rsession", "wait_i", "wait_g", "a_read", "a_loop"}
    /\ ~ctxCancelled[c]
    /\ ctxCancelled' = [ctxCancelled EXCEPT ![c] = TRUE]
    /\ UNCHANGED <<gateVars, pc, op, nops, result, errNamed, groupVars, readerVars,
                   subVars, listenerVars, histVars, lifeVars>>

\* c.sessionLock.Lock() returns; the body starts. SessionSuccess starts the
\* failure watcher and sessionF, whose errgroup starts its reader and its
\* writer; Console's body calls Read().
Session_Lock(c) ==
    /\ pc[c] = "lock"
    /\ SessionLockFree
    /\ sessionLock' = c
    /\ pc' = [pc EXCEPT ![c] =
                CASE op[c] = "examine" -> "wait_g"
                  [] op[c] = "console" -> "read"
                  [] op[c] = "close" -> "close"
                  [] op[c] \in {"status", "cabs"} -> "wait_i"
                  [] op[c] = "active" -> "a_read"
                  [] OTHER -> "write1"]
    /\ rpc' = CASE op[c] = "examine" -> [rpc EXCEPT ![W(c)] = "reg", ![R(c)] = "reg"]
                [] op[c] \in {"console", "status", "cabs", "active"} ->
                       [rpc EXCEPT ![R(c)] = "reg"]
                [] OTHER -> rpc
    /\ wr' = IF op[c] \in {"examine", "status", "cabs"}
             THEN [wr EXCEPT ![c] = "pending"] ELSE wr
    /\ UNCHANGED <<commandCache, written, op, nops, ctxCancelled, result, errNamed,
                   earlyCancelled, gCancelled, gErr, bodyDone, iCancelled, iErr,
                   rres, subVars, listenerVars, histVars, lifeVars>>

\* Protocol.Write: what it returns for what port.Write returned
Protocol_Write_mutNoUnwrap(f, err) ==
    IF err = NoError THEN NoError
    ELSE IF err = <<EBADF>> THEN <<"serial port is closed">>
    ELSE Wrap(<<"failed to write command", f>>, err)

Protocol_Write(f, err) ==
    IF err = NoError THEN NoError
    ELSE IF ErrorsIs(err, EBADF) THEN <<"serial port is closed">>
    ELSE Wrap(<<"failed to write command", f>>, err)

Write_mutCacheOnSuccess(c, f, ok) ==
    /\ commandCache' = IF ok THEN f ELSE commandCache
    /\ writeErr' = [writeErr EXCEPT ![c] =
                       Protocol_Write(f, IF ok THEN NoError ELSE portErr)]
    /\ written' = IF ok THEN Append(written, <<SessionTag(c), f>>) ELSE written
    /\ wroteIn' = IF ok /\ InSession(c)
                  THEN [wroteIn EXCEPT ![c] = f] ELSE wroteIn

\* readWriteCloserCache.Write and Protocol.Write: the cache is set, then the
\* transport write succeeds (ok) or fails
Write(c, f, ok) ==
    /\ commandCache' = f
    /\ writeErr' = [writeErr EXCEPT ![c] =
                       Protocol_Write(f, IF ok THEN NoError ELSE portErr)]
    /\ written' = IF ok THEN Append(written, <<SessionTag(c), f>>) ELSE written
    /\ wroteIn' = IF ok /\ InSession(c)
                  THEN [wroteIn EXCEPT ![c] = f] ELSE wroteIn

\* the first write of a Session body: Cab.Speed's only one, Persist's create;
\* reply is what the station sends back for it
Session_write1(c, ok, reply) ==
    /\ pc[c] = "write1"
    /\ Write(c, IF op[c] = "speed" THEN FrameCabSpeed ELSE FrameSensorCreate, ok)
    /\ pending' = IF ok THEN pending \o reply ELSE pending
    /\ IF op[c] = "persist" /\ ok
       THEN \* errgroup.WithContext: ReadOpCode(O) and Write(<E>)
            /\ pc' = [pc EXCEPT ![c] = "wait_i"]
            /\ rpc' = [rpc EXCEPT ![R(c)] = "reg"]
            /\ wr' = [wr EXCEPT ![c] = "pending"]
            /\ UNCHANGED result
       ELSE /\ pc' = [pc EXCEPT ![c] = "unlock"]
            /\ result' = [result EXCEPT ![c] = IF ok THEN "nil" ELSE "werr"]
            /\ UNCHANGED <<rpc, wr>>
    /\ UNCHANGED <<pureVars, sessionLock, op, nops, ctxCancelled, errNamed, earlyCancelled,
                   gCancelled, gErr, bodyDone, iCancelled, iErr, rres, subVars,
                   listenerVars, xBeforeF, xDuring, crashed,
                   portClosed, portErr, firstSubscriber, isActive, traceVars,
                   moreVars>>

\* the frame the body's errgroup writes
GroupFrame(k) ==
    CASE k = "examine" -> FrameTurnoutExamine
      [] k = "persist" -> FrameEEPROM
      [] k = "status" -> FrameStatusRequest
      [] k = "cabs" -> FrameCabsRequest

\* the body's errgroup: the operations that start a reader and a writer
GroupOps == {"examine", "persist", "status", "cabs"}

\* the writing goroutine of the body's errgroup: <T id X> of Examine, <E> of
\* Persist, <s> of Status, <#> of SupportedCabs; the station answers a frame
\* it has received
Group_write(c, ok) ==
    /\ wr[c] = "pending"
    /\ op[c] \in GroupOps
    /\ Write(c, GroupFrame(op[c]), ok)
    /\ pending' = IF ok THEN pending \o Device(GroupFrame(op[c])) ELSE pending
    /\ wr' = [wr EXCEPT ![c] = "done"]
    /\ iErr' = IF ok THEN iErr ELSE [iErr EXCEPT ![c] = FirstError(@, "werr")]
    /\ iCancelled' = IF ok THEN iCancelled ELSE [iCancelled EXCEPT ![c] = TRUE]
    /\ UNCHANGED <<pureVars, sessionLock, callerVars, earlyCancelled, gCancelled, gErr, bodyDone,
                   readerVars, subVars, listenerVars, xBeforeF, xDuring, crashed,
                   portClosed, portErr, firstSubscriber, isActive, traceVars,
                   moreVars>>

\* the reading goroutine of the body's errgroup returns what ReadOpCode returned
Group_reader_return(c) ==
    /\ rpc[R(c)] = "ret"
    /\ op[c] \in GroupOps
    /\ rpc' = [rpc EXCEPT ![R(c)] = "done"]
    /\ iErr' = IF rres[R(c)] = "ctx" THEN [iErr EXCEPT ![c] = FirstError(@, "ctx")] ELSE iErr
    /\ iCancelled' = IF rres[R(c)] = "ctx" THEN [iCancelled EXCEPT ![c] = TRUE] ELSE iCancelled
    /\ UNCHANGED <<gateVars, callerVars, earlyCancelled, gCancelled, gErr, bodyDone, wr,
                   rres, subVars, listenerVars, histVars, lifeVars>>

\* Persist's body: g.Wait() returns the first error of its errgroup
Persist_return(c) ==
    /\ pc[c] = "wait_i"
    /\ rpc[R(c)] = "done"
    /\ wr[c] = "done"
    /\ result' = [result EXCEPT ![c] = IF iErr[c] = None THEN "nil" ELSE iErr[c]]
    /\ pc' = [pc EXCEPT ![c] = "unlock"]
    /\ UNCHANGED <<gateVars, op, nops, ctxCancelled, errNamed, groupVars, readerVars,
                   subVars, listenerVars, histVars, lifeVars>>

\* SessionSuccess's second goroutine: sessionF returns; earlyCancel() on nil
sessionF_return(c) ==
    /\ op[c] = "examine"
    /\ pc[c] = "wait_g"
    /\ ~bodyDone[c]
    /\ rpc[R(c)] = "done"
    /\ wr[c] = "done"
    /\ bodyDone' = [bodyDone EXCEPT ![c] = TRUE]
    /\ IF iErr[c] = None
       THEN /\ earlyCancelled' = [earlyCancelled EXCEPT ![c] = TRUE]
            /\ UNCHANGED <<gErr, gCancelled>>
       ELSE /\ gErr' = [gErr EXCEPT ![c] = FirstError(@, iErr[c])]
            /\ gCancelled' = [gCancelled EXCEPT ![c] = TRUE]
            /\ UNCHANGED earlyCancelled
    /\ UNCHANGED <<gateVars, callerVars, iCancelled, iErr, wr, readerVars, subVars,
                   listenerVars, histVars, lifeVars>>

\* SessionSuccess's first goroutine: ReadOpCode(ctx, X) has returned. On an
\* error it returns it; otherwise it returns the failure error, which names
\* c.protocol.lastCommand()
watcher_return(c) ==
    /\ rpc[W(c)] = "ret"
    /\ rpc' = [rpc EXCEPT ![W(c)] = "done"]
    /\ gErr' = [gErr EXCEPT ![c] =
                  FirstError(@, IF rres[W(c)] = "ok" THEN "fail" ELSE "ctx")]
    /\ errNamed' = IF rres[W(c)] = "ok" /\ gErr[c] = None
                   THEN [errNamed EXCEPT ![c] = commandCache] ELSE errNamed
    /\ gCancelled' = [gCancelled EXCEPT ![c] = TRUE]
    /\ UNCHANGED <<gateVars, pc, op, nops, ctxCancelled, result, earlyCancelled,
                   bodyDone, iCancelled, iErr, wr, rres, subVars, listenerVars, histVars,
                   lifeVars>>

SessionSuccess_result_mutSwallow(c) == "nil"
\* err := g.Wait(); if err != nil && earlyCancelCtx.Err() == nil { return err };
\* return nil. earlyCancelCtx is a child of the caller's context.
SessionSuccess_result(c) ==
    IF gErr[c] # None /\ ~(earlyCancelled[c] \/ ctxCancelled[c])
    THEN gErr[c]
    ELSE "nil"

\* g.Wait() returns when both goroutines have returned
SessionSuccess_return(c) ==
    /\ pc[c] = "wait_g"
    /\ rpc[W(c)] = "done"
    /\ bodyDone[c]
    /\ result' = [result EXCEPT ![c] = SessionSuccess_result(c)]
    /\ pc' = [pc EXCEPT ![c] = "unlock"]
    /\ UNCHANGED <<gateVars, op, nops, ctxCancelled, errNamed, groupVars, readerVars,
                   subVars, listenerVars, histVars, lifeVars>>

\* the state of the caller's goroutines and subscriptions is dropped when
\* the operation returns
Forget(c) ==
    /\ earlyCancelled' = [earlyCancelled EXCEPT ![c] = FALSE]
    /\ gCancelled' = [gCancelled EXCEPT ![c] = FALSE]
    /\ gErr' = [gErr EXCEPT ![c] = None]
    /\ bodyDone' = [bodyDone EXCEPT ![c] = FALSE]
    /\ iCancelled' = [iCancelled EXCEPT ![c] = FALSE]
    /\ iErr' = [iErr EXCEPT ![c] = None]
    /\ wr' = [wr EXCEPT ![c] = None]
    /\ ctxCancelled' = [ctxCancelled EXCEPT ![c] = FALSE]
    /\ rpc' = [s \in Subs |-> IF Owner(s) = c THEN "idle" ELSE rpc[s]]
    /\ rres' = [s \in Subs |-> IF Owner(s) = c THEN None ELSE rres[s]]
    /\ relay' = [s \in Subs |-> IF Owner(s) = c THEN None ELSE relay[s]]
    /\ held' = [s \in Subs |-> IF Owner(s) = c THEN NoFrame ELSE held[s]]
    /\ rcancel' = {s \in rcancel : Owner(s) # c}
    /\ cancelledC' = {s \in cancelledC : Owner(s) # c}
    /\ egressClosed' = {s \in egressClosed : Owner(s) # c}
    /\ ingressClosed' = {s \in ingressClosed : Owner(s) # c}
    /\ errNamed' = [errNamed EXCEPT ![c] = NoFrame]
    /\ xBeforeF' = [xBeforeF EXCEPT ![c] = FALSE]
    /\ xDuring' = [xDuring EXCEPT ![c] = FALSE]
    /\ wroteIn' = [wroteIn EXCEPT ![c] = NoFrame]
    /\ writeErr' = [writeErr EXCEPT ![c] = NoError]
    /\ isActive' = [isActive EXCEPT ![c] = FALSE]
    /\ due' = [s \in Subs |-> IF Owner(s) = c THEN <<>> ELSE due[s]]
    /\ got' = [s \in Subs |-> IF Owner(s) = c THEN <<>> ELSE got[s]]
    /\ timer' = [timer EXCEPT ![c] = "idle"]
    /\ invoked' = [invoked EXCEPT ![c] = 0]
    /\ UNCHANGED <<pureVars, reg, crashed, portVars, firstSubscriber>>

Session_Unlock_lock_mutKeepOnError(c) == IF result[c] = "nil" THEN None ELSE sessionLock
\* defer c.sessionLock.Unlock()
Session_Unlock_lock(c) == None

\* Session / SessionSuccess returns: the deferred Unlock runs
Session_Unlock(c) ==
    /\ pc[c] = "unlock"
    /\ sessionLock' = Session_Unlock_lock(c)
    /\ pc' = [pc EXCEPT ![c] = "idle"]
    /\ Forget(c)
    /\ UNCHANGED <<commandCache, written, op, nops, result, listenerVars>>

\* Sensor.Wait: RSession's body returns what ReadCommand returned
Wait_return(c) ==
    /\ pc[c] = "rsession"
    /\ rpc[R(c)] = "ret"
    /\ result' = [result EXCEPT ![c] = IF rres[R(c)] = "ok" THEN "nil" ELSE "ctx"]
    /\ pc' = [pc EXCEPT ![c] = "idle"]
    /\ Forget(c)
    /\ UNCHANGED <<gateVars, op, nops, listenerVars>>

(***************************************************************************)
(* Sensor.Active: Read(), then the control frame, then the loop over the   *)
(* frames until X.                                                         *)
(***************************************************************************)
\* Read() has returned: g.Go(Write(control)); err := g.Wait(). On an error
\* the body returns it and the deferred cleanupF starts.
Active_write(c, ok, reply) ==
    /\ pc[c] = "a_read"
    /\ rpc[R(c)] = "loop"
    /\ Write(c, FrameControl, ok)
    /\ pending' = IF ok THEN pending \o reply ELSE pending
    /\ IF ok
       THEN /\ pc' = [pc EXCEPT ![c] = "a_loop"]
            /\ UNCHANGED <<rpc, rcancel>>
       ELSE /\ pc' = [pc EXCEPT ![c] = "a_cleanup"]
            /\ rpc' = [rpc EXCEPT ![R(c)] = "cl_wait"]
            /\ rcancel' = rcancel \cup {R(c)}
    /\ UNCHANGED <<pureVars, sessionLock, op, nops, ctxCancelled, result, errNamed, groupVars,
                   rres, reg, relay, held, cancelledC, egressClosed, ingressClosed,
                   listenerVars, xBeforeF, xDuring, crashed, portClosed, portErr,
                   firstSubscriber, isActive, traceVars,
                   moreVars>>

\* the body returns after its deferred cleanupF: nil after X, ctx.Err() after
\* ctx.Done(), the write's error
Active_return(c) ==
    /\ pc[c] \in {"a_loop", "a_cleanup"}
    /\ rpc[R(c)] = "ret"
    /\ result' = [result EXCEPT ![c] =
                     IF pc[c] = "a_cleanup" THEN "werr"
                     ELSE IF rres[R(c)] = "ok" THEN "nil" ELSE "ctx"]
    /\ pc' = [pc EXCEPT ![c] = "unlock"]
    /\ UNCHANGED <<gateVars, op, nops, ctxCancelled, errNamed, groupVars, readerVars,
                   subVars, listenerVars, histVars, lifeVars>>

(***************************************************************************)
(* Sensor.WaitConsistent: Read() in an RSession, a timer armed by the      *)
(* target state's frame and stopped by the opposite state's.               *)
(***************************************************************************)
\* the duration passes: the armed timer expires
Timer_expire(c) ==
    /\ timer[c] = "armed"
    /\ timer' = [timer EXCEPT ![c] = "fired"]
    /\ UNCHANGED <<pureVars, gateVars, callerVars, groupVars, readerVars, subVars, listenerVars,
                   histVars, portVars, firstSubscriber, writeErr, isActive, traceVars,
                   invoked>>

\* case <-timer.C: return nil; the deferred cleanupF starts
WaitConsistent_expired(c) ==
    /\ op[c] = "consistent"
    /\ rpc[R(c)] = "loop"
    /\ timer[c] = "fired"
    /\ timer' = [timer EXCEPT ![c] = "idle"]
    /\ rpc' = [rpc EXCEPT ![R(c)] = "cl_wait"]
    /\ rres' = [rres EXCEPT ![R(c)] = "ok"]
    /\ rcancel' = rcancel \cup {R(c)}
    /\ UNCHANGED <<pureVars, gateVars, callerVars, groupVars, reg, relay, held, cancelledC,
                   egressClosed, ingressClosed, listenerVars, histVars, portVars,
                   firstSubscriber, writeErr, isActive, traceVars, invoked>>

(***************************************************************************)
(* Sensor.SetCallback: a watcher goroutine with Read() in an RSession; the  *)
(* returned cleanup is cancel(); wg.Wait().                                *)
(***************************************************************************)
\* the user calls the cleanup function: cancel(), then wg.Wait()
Callback_cleanup(c) ==
    /\ op[c] = "callback"
    /\ pc[c] = "rsession"
    /\ ctxCancelled' = [ctxCancelled EXCEPT ![c] = TRUE]
    /\ pc' = [pc EXCEPT ![c] = "cb_wait"]
    /\ UNCHANGED <<gateVars, op, nops, result, errNamed, groupVars, readerVars,
                   subVars, listenerVars, histVars, lifeVars>>

\* the watcher's RSession has returned, wg.Done(): wg.Wait() and the cleanup
\* function return
Callback_cleanup_return(c) ==
    /\ pc[c] = "cb_wait"
    /\ rpc[R(c)] = "ret"
    /\ result' = [result EXCEPT ![c] = "nil"]
    /\ pc' = [pc EXCEPT ![c] = "idle"]
    /\ Forget(c)
    /\ UNCHANGED <<gateVars, op, nops, listenerVars>>

(***************************************************************************)
(* Connection.Close: Protocol.Close inside a Session.                      *)
(***************************************************************************)
\* err := p.port.Close(); on an error Close returns it
Close_port(c, ok) ==
    /\ pc[c] = "close"
    /\ IF ok
       THEN /\ portClosed' = TRUE
            /\ pc' = [pc EXCEPT ![c] = "latch"]
            /\ UNCHANGED result
       ELSE /\ result' = [result EXCEPT ![c] = "cerr"]
            /\ pc' = [pc EXCEPT ![c] = "unlock"]
            /\ UNCHANGED portClosed
    /\ UNCHANGED <<pureVars, gateVars, op, nops, ctxCancelled, errNamed, groupVars, readerVars,
                   subVars, listenerVars, histVars, pending, portErr, firstSubscriber,
                   writeErr, isActive, traceVars,
                   moreVars>>

ListenerExited_mutNoWait == TRUE
\* listenerExitC is closed
ListenerExited == lst = "exited"

\* <-p.listenerExitC; return nil
Close_latch(c) ==
    /\ pc[c] = "latch"
    /\ ListenerExited
    /\ result' = [result EXCEPT ![c] = "nil"]
    /\ pc' = [pc EXCEPT ![c] = "unlock"]
    /\ UNCHANGED <<gateVars, op, nops, ctxCancelled, errNamed, groupVars, readerVars,
                   subVars, listenerVars, histVars, lifeVars>>

(***************************************************************************)
(* CommandStation.Console: Read() inside a Session; the channel, WriteF    *)
(* and the cleanup handle are then used by the caller outside any session. *)
(***************************************************************************)
\* Console's Session body (Read()) returns and the deferred Unlock runs
Console_return(c) ==
    /\ pc[c] = "read"
    /\ rpc[R(c)] = "loop"
    /\ sessionLock' = Session_Unlock_lock(c)
    /\ pc' = [pc EXCEPT ![c] = "user"]
    /\ UNCHANGED <<commandCache, written, op, nops, ctxCancelled, result, errNamed,
                   groupVars, readerVars, subVars, listenerVars, histVars,
                   lifeVars>>

\* the user calls the WriteF (once in the model)
Console_write(c, ok) ==
    /\ pc[c] = "user"
    /\ wr[c] = None
    /\ Write(c, FrameConsole, ok)
    /\ wr' = [wr EXCEPT ![c] = "done"]
    /\ UNCHANGED <<pureVars, sessionLock, callerVars, earlyCancelled, gCancelled, gErr, bodyDone,
                   iCancelled, iErr, readerVars, subVars, listenerVars, xBeforeF,
                   xDuring, crashed,
                   portVars, firstSubscriber, isActive, traceVars,
                   moreVars>>

\* the user calls the cleanup handle: cancel()
Console_cleanup(c) ==
    /\ pc[c] = "user"
    /\ rpc[R(c)] = "loop"
    /\ rpc' = [rpc EXCEPT ![R(c)] = "cl_wait"]
    /\ rcancel' = rcancel \cup {R(c)}
    /\ UNCHANGED <<gateVars, callerVars, groupVars, rres, reg, relay, held, cancelledC,
                   egressClosed, ingressClosed, listenerVars, histVars, lifeVars>>

\* the user calls the cleanup handle again, after it has returned: cancel()
\* and wg.Wait() return at once, and close(subscription.egressC) of a closed
\* channel panics ("close of closed channel"). Nobody recovers: the process
\* dies and with it every goroutine.
Console_cleanup_again(c) ==
    /\ pc[c] = "user"
    /\ rpc[R(c)] = "ret"
    /\ IF R(c) \in egressClosed
       THEN /\ crashed' = TRUE
            /\ pc' = [d \in Callers |-> IF d = c THEN "cleaned2" ELSE "dead"]
            /\ rpc' = [s \in Subs |-> "dead"]
            /\ relay' = [s \in Subs |-> "dead"]
            /\ wr' = [d \in Callers |-> None]
            /\ lst' = "dead"
       ELSE /\ pc' = [pc EXCEPT ![c] = "cleaned2"]
            /\ UNCHANGED <<crashed, rpc, relay, wr, lst>>
    /\ UNCHANGED <<gateVars, op, nops, ctxCancelled, result, errNamed, earlyCancelled,
                   gCancelled, gErr, bodyDone, iCancelled, iErr, rres, reg, held,
                   rcancel, cancelledC, egressClosed, ingressClosed, lframe, ltodo,
                   emitted, xBeforeF, xDuring, wroteIn, lifeVars>>

\* the user drops the console
Console_done(c) ==
    /\ pc[c] \in {"user", "cleaned2"}
    /\ rpc[R(c)] = "ret"
    /\ result' = [result EXCEPT ![c] = "nil"]
    /\ pc' = [pc EXCEPT ![c] = "idle"]
    /\ Forget(c)
    /\ UNCHANGED <<gateVars, op, nops, listenerVars>>

(***************************************************************************)
(* The specifications.                                                     *)
(***************************************************************************)
\* the listener, the relays and the reading calls
ProtocolNext ==
    \/ \E s \in Subs : Read_register(s)
    \/ \E s \in Subs : cleanup_close(s)
    \/ \E s \in Subs : cleanup_delete(s)
    \/ \E s \in Subs : Reader_recv(s)
    \/ \E s \in Subs : Reader_ctxDone(s)
    \/ \E f \in DeviceFrames : listen_read(f)
    \/ \E s \in Subs : notifyF_send(s)
    \/ \E s \in Subs : notifyF_cancelled(s)

\* Spec: sessions on the channel
Next ==
    \/ \E c \in Callers : \E k \in Program(c) : Call(c, k)
    \/ \E c \in Callers : CancelCtx(c)
    \/ \E c \in Callers : Session_Lock(c)
    \/ \E c \in Callers, ok \in BOOLEAN : Session_write1(c, ok, <<>>)
    \/ \E c \in Callers, ok \in BOOLEAN : Group_write(c, ok)
    \/ \E c \in Callers : Group_reader_return(c)
    \/ \E c \in Callers : Persist_return(c)
    \/ \E c \in Callers : sessionF_return(c)
    \/ \E c \in Callers : watcher_return(c)
    \/ \E c \in Callers : SessionSuccess_return(c)
    \/ \E c \in Callers : Session_Unlock(c)
    \/ \E c \in Callers : Wait_return(c)
    \/ ProtocolNext

Spec == Init /\ [][Next]_vars

\* SubSpec: the life of subscriptions whose owners are a waiting call and a
\* console user, who may stop receiving and may call cleanup twice
SubNext ==
    \/ \E c \in Callers : \E k \in SubProgram(c) : Call(c, k)
    \/ \E c \in Callers : CancelCtx(c)
    \/ \E c \in Callers : Session_Lock(c)
    \/ \E c \in Callers : Wait_return(c)
    \/ \E c \in Callers : Console_return(c)
    \/ \E c \in Callers, ok \in BOOLEAN : Console_write(c, ok)
    \/ \E c \in Callers : Console_cleanup(c)
    \/ \E c \in Callers : Console_cleanup_again(c)
    \/ \E c \in Callers : Console_done(c)
    \/ ProtocolNext

SubSpec == Init /\ [][SubNext]_vars

\* FairSubSpec: SubSpec where every goroutine of the library that can take a
\* step takes it (the Go scheduler runs every runnable goroutine) and a
\* goroutine waiting in Lock() gets the mutex if it is free again and again
\* (sync.Mutex hands a starving waiter the mutex). Nothing is assumed of the
\* environment: the device may stay silent, contexts may never be cancelled,
\* and the console's user may never receive, write or clean up.
LibraryOwned(s) == op[Owner(s)] # "console"

SubFairness ==
    /\ \A s \in Subs : SF_vars(Read_register(s))
    /\ \A s \in Subs : SF_vars(cleanup_delete(s))
    /\ \A s \in Subs : WF_vars(cleanup_close(s))
    /\ \A s \in Subs : WF_vars(LibraryOwned(s) /\ Reader_recv(s))
    /\ \A s \in Subs : WF_vars(Reader_ctxDone(s))
    /\ \A s \in Subs : WF_vars(notifyF_send(s))
    /\ \A s \in Subs : WF_vars(notifyF_cancelled(s))
    /\ \A c \in Callers : SF_vars(Session_Lock(c))
    /\ \A c \in Callers : WF_vars(Wait_return(c))
    /\ \A c \in Callers : WF_vars(Console_return(c))

FairSubSpec == SubSpec /\ SubFairness

\* WriteSpec: Protocol.Write over the errors port.Write may return. The error
\* of the transport is drawn in the initial state; each write succeeds or
\* fails with it.
WriteInit ==
    /\ InitState
    /\ NoInput
    /\ lst = "read"
    /\ pending = <<>>
    /\ portErr \in PortErrors

WriteNext ==
    \/ \E c \in Callers : \E k \in WriteProgram(c) : Call(c, k)
    \/ \E c \in Callers : Session_Lock(c)
    \/ \E c \in Callers, ok \in BOOLEAN : Session_write1(c, ok, <<>>)
    \/ \E c \in Callers : Session_Unlock(c)
    \/ \E f \in DeviceFrames : listen_read(f)

WriteSpec == WriteInit /\ [][WriteNext]_vars

\* the default connection (RequireSubscriber = true), nothing waiting on the
\* transport
DefaultInit ==
    /\ InitState
    /\ NoInput
    /\ lst = "gate"
    /\ pending = <<>>
    /\ portErr = <<EIO>>

\* StatusSpec: request and reply on the default connection; the station
\* answers <s> and <#> and may emit other frames at any time.
StatusNext ==
    \/ \E c \in Callers : \E k \in StatusProgram(c) : Call(c, k)
    \/ \E c \in Callers : CancelCtx(c)
    \/ \E c \in Callers : Session_Lock(c)
    \/ \E c \in Callers, ok \in BOOLEAN : Group_write(c, ok)
    \/ \E c \in Callers : Group_reader_return(c)
    \/ \E c \in Callers : Persist_return(c)
    \/ \E c \in Callers : Session_Unlock(c)
    \/ listen_gate
    \/ listen_read_pending
    \/ ProtocolNext

StatusSpec == DefaultInit /\ [][StatusNext]_vars

\* FairStatusSpec: StatusSpec where every goroutine of the library that can
\* take a step takes it and port.Read returns the bytes that wait on the
\* transport. Nothing is assumed of the callers.
StatusFairness ==
    /\ \A s \in Subs : SF_vars(Read_register(s))
    /\ \A s \in Subs : SF_vars(cleanup_delete(s))
    /\ \A s \in Subs : WF_vars(cleanup_close(s))
    /\ \A s \in Subs : WF_vars(Reader_recv(s))
    /\ \A s \in Subs : WF_vars(Reader_ctxDone(s))
    /\ \A s \in Subs : WF_vars(notifyF_send(s))
    /\ \A s \in Subs : WF_vars(notifyF_cancelled(s))
    /\ \A c \in Callers : SF_vars(Session_Lock(c))
    /\ \A c \in Callers : WF_vars(\E ok \in BOOLEAN : Group_write(c, ok))
    /\ \A c \in Callers : WF_vars(Group_reader_return(c))
    /\ \A c \in Callers : WF_vars(Persist_return(c))
    /\ \A c \in Callers : WF_vars(Session_Unlock(c))
    /\ WF_vars(listen_gate)
    /\ WF_vars(listen_read_pending)

FairStatusSpec == StatusSpec /\ StatusFairness

\* ActiveSpec: Sensor.Active on the default connection, beside a Sensor.Wait.
ActiveNext ==
    \/ \E c \in Callers : \E k \in ActiveProgram(c) : Call(c, k)
    \/ \E c \in Callers : CancelCtx(c)
    \/ \E c \in Callers : Session_Lock(c)
    \/ \E c \in Callers, ok \in BOOLEAN, reply \in ActiveReplies :
           Active_write(c, ok, reply)
    \/ \E c \in Callers : Active_return(c)
    \/ \E c \in Callers : Session_Unlock(c)
    \/ \E c \in Callers : Wait_return(c)
    \/ listen_gate
    \/ listen_read_pending
    \/ ProtocolNext

ActiveSpec == DefaultInit /\ [][ActiveNext]_vars

\* PersistSpec: Sensor.Persist on the default connection, beside a
\* Sensor.Wait; the station answers the create frame with <O> and may emit
\* other frames at any time.
PersistCreateReply == <<FrameSuccess>>

PersistNext ==
    \/ \E c \in Callers : \E k \in PersistProgram(c) : Call(c, k)
    \/ \E c \in Callers : CancelCtx(c)
    \/ \E c \in Callers : Session_Lock(c)
    \/ \E c \in Callers, ok \in BOOLEAN : Session_write1(c, ok, PersistCreateReply)
    \/ \E c \in Callers, ok \in BOOLEAN : Group_write(c, ok)
    \/ \E c \in Callers : Group_reader_return(c)
    \/ \E c \in Callers : Persist_return(c)
    \/ \E c \in Callers : Session_Unlock(c)
    \/ \E c \in Callers : Wait_return(c)
    \/ listen_gate
    \/ listen_read_pending
    \/ ProtocolNext

PersistSpec == DefaultInit /\ [][PersistNext]_vars

\* FairPersistSpec: PersistSpec where every goroutine of the library that can
\* take a step takes it and port.Read returns the bytes that wait on the
\* transport. Nothing is assumed of the callers.
PersistFairness ==
    /\ \A s \in Subs : SF_vars(Read_register(s))
    /\ \A s \in Subs : SF_vars(cleanup_delete(s))
    /\ \A s \in Subs : WF_vars(cleanup_close(s))
    /\ \A s \in Subs : WF_vars(Reader_recv(s))
    /\ \A s \in Subs : WF_vars(Reader_ctxDone(s))
    /\ \A s \in Subs : WF_vars(notifyF_send(s))
    /\ \A s \in Subs : WF_vars(notifyF_cancelled(s))
    /\ \A c \in Callers : SF_vars(Session_Lock(c))
    /\ \A c \in Callers :
           WF_vars(\E ok \in BOOLEAN : Session_write1(c, ok, PersistCreateReply))
    /\ \A c \in Callers : WF_vars(\E ok \in BOOLEAN : Group_write(c, ok))
    /\ \A c \in Callers : WF_vars(Group_reader_return(c))
    /\ \A c \in Callers : WF_vars(Persist_return(c))
    /\ \A c \in Callers : WF_vars(Session_Unlock(c))
    /\ \A c \in Callers : WF_vars(Wait_return(c))
    /\ WF_vars(listen_gate)
    /\ WF_vars(listen_read_pending)

FairPersistSpec == PersistSpec /\ PersistFairness

\* ConsistentSpec: Sensor.WaitConsistent and Sensor.SetCallback on the default
\* connection; the sensors report their changes at any time.
ConsistentNext ==
    \/ \E c \in Callers : \E k \in ConsistentProgram(c) : Call(c, k)
    \/ \E c \in Callers : CancelCtx(c)
    \/ \E c \in Callers : Timer_expire(c)
    \/ \E c \in Callers : WaitConsistent_expired(c)
    \/ \E c \in Callers : Wait_return(c)
    \/ \E c \in Callers : Callback_cleanup(c)
    \/ \E c \in Callers : Callback_cleanup_return(c)
    \/ listen_gate
    \/ \E s \in Subs : Read_register(s)
    \/ \E s \in Subs : cleanup_close(s)
    \/ \E s \in Subs : cleanup_delete(s)
    \/ \E s \in Subs : Reader_recv(s)
    \/ \E s \in Subs : Reader_ctxDone(s)
    \/ \E f \in SensorFrames : listen_read(f)
    \/ \E s \in Subs : notifyF_send(s)
    \/ \E s \in Subs : notifyF_cancelled(s)

ConsistentSpec == DefaultInit /\ [][ConsistentNext]_vars

\* GateSpec: the listener's start and end. RequireSubscriber = true (the
\* default of the connection) and the station's ready broadcast waits on the
\* transport; one caller calls Ready, the other Connection.Close.
GateInit ==
    /\ InitState
    /\ NoInput
    /\ lst = "gate"
    /\ pending = <<FrameReady>>
    /\ portErr = <<EIO>>

GateNext ==
    \/ \E c \in Callers : \E k \in GateProgram(c) : Call(c, k)
    \/ \E c \in Callers : CancelCtx(c)
    \/ \E c \in Callers : Session_Lock(c)
    \/ \E c \in Callers : Session_Unlock(c)
    \/ \E c \in Callers : Wait_return(c)
    \/ \E c \in Callers, ok \in BOOLEAN : Close_port(c, ok)
    \/ \E c \in Callers : Close_latch(c)
    \/ listen_gate
    \/ listen_read_pending
    \/ listen_exit
    \/ ProtocolNext

GateSpec == GateInit /\ [][GateNext]_vars

\* FairGateSpec: GateSpec where every goroutine of the library that can take
\* a step takes it and port.Read returns the bytes that wait on the
\* transport. Nothing is assumed of the callers (they may never call, never
\* cancel) nor of the device (it may stay silent).
GateFairness ==
    /\ \A s \in Subs : SF_vars(Read_register(s))
    /\ \A s \in Subs : SF_vars(cleanup_delete(s))
    /\ \A s \in Subs : WF_vars(cleanup_close(s))
    /\ \A s \in Subs : WF_vars(Reader_recv(s))
    /\ \A s \in Subs : WF_vars(Reader_ctxDone(s))
    /\ \A s \in Subs : WF_vars(notifyF_send(s))
    /\ \A s \in Subs : WF_vars(notifyF_cancelled(s))
    /\ \A c \in Callers : SF_vars(Session_Lock(c))
    /\ \A c \in Callers : WF_vars(Session_Unlock(c))
    /\ \A c \in Callers : WF_vars(Wait_return(c))
    /\ \A c \in Callers : WF_vars(\E ok \in BOOLEAN : Close_port(c, ok))
    /\ \A c \in Callers : WF_vars(Close_latch(c))
    /\ WF_vars(listen_gate)
    /\ WF_vars(listen_read_pending)
    /\ WF_vars(listen_exit)

FairGateSpec == GateSpec /\ GateFairness

(***************************************************************************)
(* The session gate.                                                       *)
(***************************************************************************)
\* C1: at any instant at most one caller is inside the body passed to Session
\* or SessionSuccess, and a second caller of either stays blocked in Lock()
\* for as long as the first has not returned.
C1_OneWriteSession ==
    \A c, d \in Callers :
        c # d /\ InSession(c) =>
            /\ ~InSession(d)
            /\ pc[d] = "lock" => ~ENABLED Session_Lock(d)

\* a second caller is blocked while the first is in its body
C1_Witness ==
    /\ pc["c1"] = "wait_i"
    /\ pc["c2"] = "lock"
    /\ op["c2"] = "examine"

TagOf(i) == written[i][1]

\* C3: the frames written from inside one Session or SessionSuccess body are
\* a contiguous run of the transport's write order: no frame written from
\* inside another session lies between two of them.
C3_SessionFramesContiguous ==
    \A i, j, k \in 1..Len(written) :
        (i < j /\ j < k /\ TagOf(i) = TagOf(k) /\ TagOf(i)[2] # 0) =>
            (TagOf(j) = TagOf(i) \/ TagOf(j)[2] = 0)

\* a session of two frames and a session of another caller have both written
C3_Witness ==
    /\ Len(written) = 3
    /\ \E i, j \in 1..3 : i # j /\ TagOf(i) = TagOf(j) /\ TagOf(i)[2] # 0
    /\ \E i, j \in 1..3 : TagOf(i)[1] # TagOf(j)[1]

(***************************************************************************)
(* SessionSuccess, as TurnoutServo.Examine runs it.                        *)
(***************************************************************************)
\* SessionSuccess has computed what it returns and is about to unlock
Returning(c) == op[c] = "examine" /\ pc[c] = "unlock"

\* C4 as stated, its first half, and leaving the caller's cancellation
\* aside: if the watcher receives the device's X frame while the body f has
\* not completed, f's await is cancelled and SessionSuccess returns a non-nil
\* error.
C4_FailureIsReported ==
    \A c \in Callers :
        Returning(c) /\ xBeforeF[c] /\ ~ctxCancelled[c] =>
            /\ gCancelled[c]
            /\ result[c] # "nil"

\* C5 as stated: if the caller's context is cancelled while the body awaits
\* its reply (the body's first error is the cancellation error of its
\* ReadOpCode) and no X frame has arrived, SessionSuccess returns the
\* cancellation error.
C5_CancellationIsReported ==
    \A c \in Callers :
        Returning(c) /\ ctxCancelled[c] /\ iErr[c] = "ctx" /\ ~xDuring[c] =>
            result[c] = "ctx"

\* what the body f returned: the first error of its errgroup, or nil
BodyResult(c) == IF iErr[c] = None THEN "nil" ELSE iErr[c]

\* C6: when no X frame arrives and the caller's context is not cancelled,
\* SessionSuccess returns exactly what its body returned: nil for nil (the
\* failure watcher having been cancelled), the body's error for an error.
C6_ReturnsBodyResult ==
    \A c \in Callers :
        Returning(c) /\ ~xDuring[c] /\ ~ctxCancelled[c] =>
            /\ result[c] = BodyResult(c)
            /\ rres[W(c)] = "ctx"

\* the body returned nil, the watcher was cancelled, SessionSuccess returns nil
C6_Witness ==
    /\ Returning("c2")
    /\ ~xDuring["c2"] /\ ~ctxCancelled["c2"]
    /\ iErr["c2"] = None
    /\ rres[R("c2")] = "ok"
    /\ earlyCancelled["c2"]
    /\ result["c2"] = "nil"

\* C7: every call of Session or SessionSuccess releases the gate when it
\* returns, whatever it returns: the gate is never held by a caller that is
\* not inside its session, so a later Session call is not blocked by a
\* session that has returned.
C7_GateReleasedOnReturn ==
    /\ \A c \in Callers : sessionLock = c => InSession(c)
    /\ \A c \in Callers :
          (pc[c] = "lock" /\ \A d \in Callers : ~InSession(d)) => ENABLED Session_Lock(c)

\* a SessionSuccess has returned the device's failure and a later Session
\* holds the gate
C7_Witness ==
    /\ pc["c2"] = "idle"
    /\ op["c2"] = "examine"
    /\ result["c2"] = "fail"
    /\ sessionLock = "c1"

(***************************************************************************)
(* Subscriptions.                                                          *)
(***************************************************************************)
\* the cleanup of the reading call's subscription has returned
CleanedUp(s) == rpc[s] \in {"ret", "done"}

\* every reading call ever started has run its cleanup
AllCleanedUp == \A s \in Subs : rpc[s] \in {"idle", "ret", "done"}

\* C8: when a cleanup handle returns, its relay goroutine has terminated and
\* its subscription is not in the registry; hence once every register has
\* had its cleanup the registry is empty.
C8_CleanupLeavesNothing ==
    /\ \A s \in Subs : CleanedUp(s) => (relay[s] = "done" /\ s \notin reg)
    /\ AllCleanedUp => reg = {}

\* Sensor.Wait was cancelled and has returned; all operations are over and
\* the registry is empty
C8_Witness ==
    /\ \A c \in Callers : pc[c] = "idle" /\ nops[c] = MaxOps
    /\ op["c2"] = "wait"
    /\ result["c2"] = "ctx"
    /\ op["c1"] = "persist"
    /\ result["c1"] \in {"nil", "ctx"}
    /\ reg = {}

\* C9 as stated: the cleanup handle is idempotent; a second invocation
\* completes without failure.
C9_CleanupIdempotent ==
    \A c \in Callers : pc[c] = "cleaned2" => ~crashed

\* the ReadCommand of Sensor.Wait is registered and in its select, or in its
\* cleanup, and its context is cancelled
WaitPending(c) ==
    /\ op[c] = "wait" /\ pc[c] = "rsession"
    /\ rpc[R(c)] \in {"loop", "cl_wait", "cl_lock"}
    /\ ctxCancelled[c]

\* C10 as stated: once its context is cancelled, ReadCommand (here under
\* Sensor.Wait) eventually returns, whatever the other registered subscribers
\* are doing. A panic of the program is not counted against the claim.
C10_CancelledReadReturns ==
    \A c \in Callers : WaitPending(c) ~> (pc[c] = "idle" \/ crashed)

(***************************************************************************)
(* Delivery to one subscription.                                           *)
(***************************************************************************)
RECURSIVE IsSubSeq(_, _)
\* a is b with some elements left out
IsSubSeq(a, b) ==
    IF a = <<>> THEN TRUE
    ELSE IF b = <<>> THEN FALSE
    ELSE IF Head(a) = Head(b) THEN IsSubSeq(Tail(a), Tail(b))
    ELSE IsSubSeq(a, Tail(b))

\* C11: a subscription's egress yields frames in the order in which the
\* listener parsed them: what the subscriber has received is what was parsed
\* while it was registered, with nothing reordered and nothing twice.
C11_EgressInParseOrder ==
    \A s \in Subs : IsSubSeq(got[s], due[s])

\* a subscriber has received two different frames
C11_Witness ==
    /\ Len(got[R("c2")]) = 2
    /\ got[R("c2")][1] # got[R("c2")][2]

\* the frame the relay of s carries to the egress, and the frame the listener
\* is about to send to s
InRelay(s) == IF relay[s] = "send" THEN <<held[s]>> ELSE <<>>
InListener(s) == IF lst = "dispatch" /\ s \in ltodo THEN <<lframe>> ELSE <<>>

\* C12: every frame parsed while a subscription is registered and its
\* cleanup has not started is pushed to it: such a frame has been received,
\* or is in the relay, or the listener is sending it; none is dropped.
C12_NoFrameMissed ==
    \A s \in Subs :
        (Traced(s) /\ rpc[s] = "loop") =>
            due[s] = got[s] \o InRelay(s) \o InListener(s)

\* the listener waits to send the second frame while the first is in the relay
C12_Witness ==
    /\ rpc[R("c2")] = "loop"
    /\ Len(due[R("c2")]) = 2
    /\ got[R("c2")] = <<>>
    /\ relay[R("c2")] = "send"
    /\ InListener(R("c2")) # <<>>

(***************************************************************************)
(* The listener's start and end.                                           *)
(***************************************************************************)
\* C13: with RequireSubscriber = true the listener reads nothing from the
\* transport until a subscription has been registered: until then it is at
\* its gate and the bytes that wait on the transport stay there.
C13_NoReadBeforeFirstSubscriber ==
    ~firstSubscriber =>
        /\ lst = "gate"
        /\ emitted = 0
        /\ pending = <<FrameReady>>

\* Ready has been called and the transport is even closed, but no
\* subscription is registered yet: the listener is at its gate
C13_Witness ==
    /\ pc["c1"] = "rsession"
    /\ rpc[R("c1")] = "reg"
    /\ portClosed
    /\ lst = "gate"

\* Ready(ctx) has been called while the broadcast waits on the transport and
\* no subscriber exists yet
ReadyCalled(c) ==
    /\ op[c] = "ready"
    /\ pc[c] = "rsession"
    /\ ~firstSubscriber
    /\ pending = <<FrameReady>>

\* C14: with RequireSubscriber = true and the ready broadcast waiting on the
\* transport before any subscriber exists, a call of Ready eventually returns
\* nil, unless its context is cancelled or the connection is closed.
C14_ReadyReturns ==
    \A c \in Callers :
        ReadyCalled(c) ~>
            ((pc[c] = "idle" /\ result[c] = "nil") \/ ctxCancelled[c] \/ portClosed)

\* Ready has returned nil, its context never cancelled, the transport open
C14_Witness ==
    /\ op["c1"] = "ready"
    /\ pc["c1"] = "idle"
    /\ result["c1"] = "nil"
    /\ ~portClosed

\* Close has returned nil to the caller
ClosedNil(c) == op[c] = "close" /\ result[c] = "nil" /\ pc[c] \in {"unlock", "idle"}

\* C15: when Close has returned nil the listener has terminated: it is in no
\* transport read and in no dispatch.
C15_ClosedMeansListenerGone ==
    \A c \in Callers : ClosedNil(c) => (lst = "exited" /\ ltodo = {})

\* Close has returned nil after the listener had parsed the broadcast
C15_Witness ==
    /\ ClosedNil("c2")
    /\ pc["c2"] = "idle"
    /\ emitted = 1
    /\ lst = "exited"

\* C16 as stated: once Close has closed the transport, Close eventually
\* returns, wherever the listener is.
C16_CloseReturns ==
    \A c \in Callers : pc[c] = "latch" ~> pc[c] = "idle"

\* C17 as stated: when a transport read has failed and the listener has
\* exited, the egress of every registered subscription is closed, so that a
\* caller awaiting a frame observes the close.
C17_ExitClosesEgress ==
    lst = "exited" =>
        \A s \in reg : rpc[s] = "loop" => s \in egressClosed

(***************************************************************************)
(* Protocol.Write.                                                         *)
(***************************************************************************)
\* Cab.Speed's session has returned from its Protocol.Write
WriteReturned(c) == op[c] = "speed" /\ pc[c] = "unlock"

\* port.Write took the frame
PortWriteSucceeded(c) == wroteIn[c] = FrameCabSpeed

\* C18 as stated: Write returns "serial port is closed" when the transport
\* write failed with bad file descriptor, the transport's error itself
\* (verbatim) when it failed otherwise, and nil exactly on success.
C18_OtherErrorVerbatim ==
    \A c \in Callers :
        WriteReturned(c) =>
            IF PortWriteSucceeded(c) THEN writeErr[c] = NoError
            ELSE IF ErrorsIs(portErr, EBADF)
                 THEN writeErr[c] = <<"serial port is closed">>
                 ELSE writeErr[c] = portErr

\* C18, amended: Write returns nil exactly when the transport write
\* succeeded; "serial port is closed" when the transport's error is or wraps
\* bad file descriptor; otherwise a new error "failed to write command <frame>"
\* that wraps the transport's error (which is not returned verbatim but stays
\* reachable through the chain).
C18_OtherErrorWrapped ==
    \A c \in Callers :
        WriteReturned(c) =>
            IF PortWriteSucceeded(c) THEN writeErr[c] = NoError
            ELSE IF ErrorsIs(portErr, EBADF)
                 THEN writeErr[c] = <<"serial port is closed">>
                 ELSE /\ writeErr[c] # portErr
                      /\ Head(writeErr[c]) = <<"failed to write command", FrameCabSpeed>>
                      /\ Tail(writeErr[c]) = portErr

\* one write has failed with an input/output error and returned it wrapped
C18_Witness ==
    /\ WriteReturned("c1")
    /\ ~PortWriteSucceeded("c1")
    /\ portErr = <<EIO>>
    /\ writeErr["c1"] = <<<<"failed to write command", FrameCabSpeed>>, EIO>>

(***************************************************************************)
(* CommandStation.Status and SupportedCabs.                                *)
(***************************************************************************)
\* Status: len(parameters) must be 7; Version, MicroprocessorType,
\* MotorcontrollerType, BuildNumber are parameters[1], [3], [5], [6]
StatusOf(f) ==
    IF Len(f) - 1 # 7 THEN None ELSE <<f[1 + 2], f[3 + 2], f[5 + 2], f[6 + 2]>>

\* SupportedCabs: len(parameters) must be 1; the number is parameters[0]
CabsOf(f) == IF Len(f) - 1 # 1 THEN None ELSE f[0 + 2]

\* the request has been written, so the station has emitted its reply
Requested(c) ==
    /\ op[c] \in {"status", "cabs"}
    /\ pc[c] = "wait_i"
    /\ wroteIn[c] = GroupFrame(op[c])

\* the call returns what the reply says
Answered(c) ==
    /\ pc[c] = "unlock"
    /\ result[c] = "nil"
    /\ got[R(c)] # <<>>
    /\ LET f == got[R(c)][Len(got[R(c)])] IN
       IF op[c] = "status"
       THEN StatusOf(f) = <<"V-5.4.0", "MEGA", "EX8874", "G-c389fe9">>
       ELSE CabsOf(f) = "50"

\* C19 as stated: when the station has emitted its reply to <s> (to <#>),
\* Status (SupportedCabs) eventually returns what the reply says, in every
\* interleaving, unless the caller cancels its context.
C19_ReplyIsReturned ==
    \A c \in Callers : Requested(c) ~> (Answered(c) \/ ctxCancelled[c])

(***************************************************************************)
(* Sensor.Active.                                                          *)
(***************************************************************************)
\* the value Sensor.Active returns: false on an error, else isActive
Active_value(c) == result[c] = "nil" /\ isActive[c]

\* the frames the call received end with the first X and hold the sensor's
\* own <Q id> before it
OwnBeforeFirstX(q) ==
    /\ q # <<>>
    /\ q[Len(q)] = FrameFail
    /\ \A i \in 1..(Len(q) - 1) : q[i] # FrameFail
    /\ \E i \in 1..(Len(q) - 1) : q[i] = FrameSensorActive

\* C20: Sensor.Active is subscribed (to all frames) when it writes the
\* control frame and while it consumes; it consumes up to the first X; it
\* returns true exactly when <Q id> of its own id was received before that X,
\* and false after a write error or a cancellation.
C20_ActiveUntilFirstX ==
    \A c \in Callers :
        op[c] = "active" =>
            /\ (pc[c] = "a_loop" /\ rpc[R(c)] = "loop") =>
                   /\ R(c) \in reg
                   /\ wroteIn[c] = FrameControl
                   /\ \A i \in 1..Len(got[R(c)]) : got[R(c)][i] # FrameFail
            /\ (pc[c] \in {"a_read", "a_cleanup"}) => got[R(c)] = <<>>
            /\ pc[c] = "unlock" =>
                   /\ Active_value(c) <=> OwnBeforeFirstX(got[R(c)])
                   /\ result[c] = "werr" => wroteIn[c] # FrameControl
                   /\ result[c] = "ctx" => ctxCancelled[c]
                   /\ result[c] \in {"werr", "ctx"} => ~Active_value(c)

\* Active returns true after the activation of another sensor, its own
\* sensor's and X
C20_Witness ==
    /\ op["c1"] = "active"
    /\ pc["c1"] = "unlock"
    /\ Active_value("c1")
    /\ Len(got[R("c1")]) = 3
    /\ got[R("c1")][1] = FrameSensorOther

(***************************************************************************)
(* Persist.                                                                *)
(***************************************************************************)
\* the create frame was written (the station has answered it with <O>) and
\* the <E> write has succeeded
PersistWritten(c) ==
    /\ op[c] = "persist"
    /\ pc[c] = "wait_i"
    /\ wr[c] = "done"
    /\ wroteIn[c] = FrameEEPROM

\* C21 as stated: when the station has answered the create frame with <O> and
\* the <E> write has succeeded, Persist eventually returns nil, unless the
\* caller's context ends.
C21_PersistReturnsNil ==
    \A c \in Callers :
        PersistWritten(c) ~> ((pc[c] = "unlock" /\ result[c] = "nil") \/ ctxCancelled[c])

(***************************************************************************)
(* Sensor.WaitConsistent and Sensor.SetCallback.                           *)
(***************************************************************************)
IsSighting(f) == f \in {FrameSensorActive, FrameSensorInactive}

\* the last frame of the sensor's state among the frames processed
LastSighting(q) ==
    LET sq == SelectSeq(q, IsSighting) IN
    IF sq = <<>> THEN NoFrame ELSE sq[Len(sq)]

IsStateFrame(f) == f = FrameSensorActive

\* C23: the callback has been invoked once for each frame equal to the
\* sensor's state frame among those the watcher received, as they arrive,
\* and it is invoked only while the watcher runs, which the cleanup function
\* awaits before it returns.
C23_CallbackPerStateFrame ==
    /\ [](\A c \in Callers :
             op[c] = "callback" =>
                 invoked[c] = Len(SelectSeq(got[R(c)], IsStateFrame)))
    /\ [][\A c \in Callers :
             invoked'[c] > invoked[c] =>
                 /\ op[c] = "callback"
                 /\ pc[c] \in {"rsession", "cb_wait"}
                 /\ got'[R(c)] = Append(got[R(c)], FrameSensorActive)]_vars

\* the cleanup function is about to return: the callback was invoked for the
\* one state frame of the two frames received
C23_Witness ==
    /\ op["c2"] = "callback"
    /\ pc["c2"] = "cb_wait"
    /\ rpc[R("c2")] = "ret"
    /\ invoked["c2"] = 1
    /\ Len(got[R("c2")]) = 2


(***************************************************************************)
(* The command codec. A string is a sequence of one-character strings; a   *)
(* format is the sequence of its verbs, which the code joins by one space. *)
(***************************************************************************)
\* the longest body handed to the parser
MaxLen == 5

Space == " "
DoubleQuote == "\""
Backslash == "\\"
\* the characters of a body: a letter, and the ones the codec treats apart
BodyChars == {"a", Space, DoubleQuote, Backslash}
Delimiters == {"<", ">"}

RECURSIVE StringsUpTo(_)
StringsUpTo(n) ==
    IF n = 0 THEN {<<>>}
    ELSE LET shorter == StringsUpTo(n - 1) IN
         shorter \cup {Append(b, ch) : b \in {x \in shorter : Len(x) = n - 1},
                                       ch \in BodyChars}

\* the frame bodies, with no delimiter in them
Bodies == StringsUpTo(MaxLen)
\* a body as the listener hands it over, and as a caller may write it
Inputs == Bodies \cup {<<"<">> \o b \o <<">">> : b \in Bodies}

ErrInvalidCommandLength == <<"invalid command length">>

RECURSIVE TrimLeft(_, _)
TrimLeft(str, cutset) ==
    IF str # <<>> /\ Head(str) \in cutset THEN TrimLeft(Tail(str), cutset) ELSE str

RECURSIVE TrimRight(_, _)
TrimRight(str, cutset) ==
    IF str # <<>> /\ str[Len(str)] \in cutset
    THEN TrimRight(SubSeq(str, 1, Len(str) - 1), cutset) ELSE str

\* strings.Trim
Trim(str, cutset) == TrimRight(TrimLeft(str, cutset), cutset)

Contains(str, ch) == \E i \in 1..Len(str) : str[i] = ch

RECURSIVE Join(_, _)
Join(strs, sep) ==
    IF strs = <<>> THEN <<>>
    ELSE IF Len(strs) = 1 THEN strs[1]
    ELSE strs[1] \o sep \o Join(Tail(strs), sep)

\* strconv.Quote, the %q verb: the string between double quotes, every
\* double quote and every backslash in it escaped by a backslash
RECURSIVE Escape(_)
Escape(str) ==
    IF str = <<>> THEN <<>>
    ELSE (IF Head(str) \in {DoubleQuote, Backslash}
          THEN <<Backslash, Head(str)>> ELSE <<Head(str)>>) \o Escape(Tail(str))

Quote(str) == <<DoubleQuote>> \o Escape(str) \o <<DoubleQuote>>

NewCommand(opCode, format, parameters) ==
    [opCode |-> opCode, format |-> format, parameters |-> parameters]

\* the loop of NewCommandFromString over commandWithoutOpCode: the values
\* of readingParameter at each call of storeParameterF
RECURSIVE ReadParameters(_, _, _, _)
ReadParameters(rest, readingParameter, readingQuotedString, stored) ==
    IF rest = <<>>
    THEN IF Len(readingParameter) > 0 THEN Append(stored, readingParameter) ELSE stored
    ELSE IF Head(rest) = Space /\ ~readingQuotedString
    THEN ReadParameters(Tail(rest), <<>>, readingQuotedString,
                        Append(stored, readingParameter))
    ELSE ReadParameters(Tail(rest), Append(readingParameter, Head(rest)),
                        IF Head(rest) = DoubleQuote THEN ~readingQuotedString
                        ELSE readingQuotedString,
                        stored)

CommandWithoutOpCode(str) == Trim(Tail(Trim(str, Delimiters)), {Space})

\* storeParameterF's verb for a token
StoredFormat(readingParameter) ==
    IF Contains(readingParameter, DoubleQuote) THEN "%q" ELSE "%s"

StoredParameter_mutKeepQuotes(readingParameter) == readingParameter

\* storeParameterF's parameter for a token
StoredParameter(readingParameter) == Trim(readingParameter, {DoubleQuote})

NewCommandFromString_mutNeverFails(str) ==
    LET commandTrimmed == Trim(str, Delimiters) IN
    [cmd |-> NewCommand(IF commandTrimmed = <<>> THEN Space ELSE commandTrimmed[1],
                        <<>>, <<>>),
     err |-> NoError]

NewCommandFromString(str) ==
    LET commandTrimmed == Trim(str, Delimiters) IN
    IF Len(commandTrimmed) = 0
    THEN [cmd |-> None, err |-> ErrInvalidCommandLength]
    ELSE LET tokens == ReadParameters(CommandWithoutOpCode(str), <<>>, FALSE, <<>>) IN
         [cmd |-> NewCommand(commandTrimmed[1],
                             [i \in 1..Len(tokens) |-> StoredFormat(tokens[i])],
                             [i \in 1..Len(tokens) |-> StoredParameter(tokens[i])]),
          err |-> NoError]

\* one verb of fmt.Sprintf applied to its argument
Verb(verb, parameter) == IF verb = "%q" THEN Quote(parameter) ELSE parameter

\* Command.String: the double Sprintf
String(c) ==
    IF c.format = <<>>
    THEN <<"<", c.opCode, ">">>
    ELSE <<"<", c.opCode, Space>>
         \o Join([i \in 1..Len(c.format) |-> Verb(c.format[i], c.parameters[i])],
                 <<Space>>)
         \o <<">">>

\* Command.Bytes
Bytes(c) == String(c) \o <<"\n">>

(***************************************************************************)
(* CodecSpec: one input goes through NewCommandFromString, String, and     *)
(* through both once more.                                                 *)
(***************************************************************************)
codecRest == <<gateVars, callerVars, groupVars, readerVars, subVars, listenerVars,
               histVars, portVars, firstSubscriber, writeErr, isActive, traceVars,
               moreVars, wireVars, frameVars>>

Codec_parse ==
    /\ stage = "input"
    /\ parsed' = NewCommandFromString(command)
    /\ stage' = "parsed"
    /\ UNCHANGED <<command, wireForm, reparsed, wireForm2, codecRest>>

Codec_String ==
    /\ stage = "parsed"
    /\ parsed.err = NoError
    /\ wireForm' = String(parsed.cmd)
    /\ stage' = "serialized"
    /\ UNCHANGED <<command, parsed, reparsed, wireForm2, codecRest>>

Codec_parse2 ==
    /\ stage = "serialized"
    /\ reparsed' = NewCommandFromString(wireForm)
    /\ stage' = "reparsed"
    /\ UNCHANGED <<command, parsed, wireForm, wireForm2, codecRest>>

Codec_String2 ==
    /\ stage = "reparsed"
    /\ reparsed.err = NoError
    /\ wireForm2' = String(reparsed.cmd)
    /\ stage' = "done"
    /\ UNCHANGED <<command, parsed, wireForm, reparsed, codecRest>>

CodecInit ==
    /\ InitState
    /\ lst = "gate"
    /\ pending = <<>>
    /\ portErr = <<EIO>>
    /\ stage = "input"
    /\ command \in Inputs
    /\ stream = <<>>

CodecNext ==
    \/ Codec_parse
    \/ Codec_String
    \/ Codec_parse2
    \/ Codec_String2

CodecSpec == CodecInit /\ [][CodecNext]_vars


\* the body of an input: the input without its delimiters
Body(str) ==
    IF Len(str) >= 2 /\ str[1] = "<" /\ str[Len(str)] = ">"
    THEN SubSeq(str, 2, Len(str) - 1) ELSE str

Parsed == stage \in {"parsed", "serialized", "reparsed", "done"}

\* C29: NewCommandFromString fails, with the invalid command length error,
\* exactly for the empty body; every non-empty body is parsed.
C29_FailsOnlyOnEmptyBody ==
    Parsed =>
        /\ Body(command) = <<>> => parsed.err = ErrInvalidCommandLength
        /\ Body(command) # <<>> => parsed.err = NoError

C29_Witness ==
    /\ Parsed
    /\ command = <<"<", ">">>
    /\ parsed.err = ErrInvalidCommandLength


\* how many double quotes stand before position k of a string
QuotesBefore(str, k) == Cardinality({j \in 1..(k - 1) : str[j] = DoubleQuote})

\* a double-quoted span: quotes at both ends and nowhere between
IsQuotedSpan(str) ==
    /\ Len(str) >= 2
    /\ str[1] = DoubleQuote
    /\ str[Len(str)] = DoubleQuote
    /\ \A j \in 2..(Len(str) - 1) : str[j] # DoubleQuote

\* the tokens of a body: what stands between its spaces outside quotes
IsTokenization(tokens, rest) ==
    /\ Join(tokens, <<Space>>) = rest
    /\ \A i \in 1..Len(tokens) :
        /\ \A k \in 1..Len(tokens[i]) :
               tokens[i][k] = Space => QuotesBefore(tokens[i], k) % 2 = 1
        /\ i < Len(tokens) => QuotesBefore(tokens[i], Len(tokens[i]) + 1) % 2 = 0

\* C28: the command parsed from a body has the body's first character as
\* opcode and one parameter and one verb per token, in order; a quoted span
\* is stored without its quotes under %q, a token with no quote as it is
\* under %s; what follows the opcode with no space starts the first token.
C28_ParseShape ==
    (Parsed /\ parsed.err = NoError) =>
        LET body == Body(command)
            rest == CommandWithoutOpCode(command)
            tokens == ReadParameters(rest, <<>>, FALSE, <<>>)
            c == parsed.cmd
        IN  /\ c.opCode = body[1]
            /\ IsTokenization(tokens, rest)
            /\ Len(c.parameters) = Len(tokens)
            /\ Len(c.format) = Len(tokens)
            /\ \A i \in 1..Len(tokens) :
                /\ c.format[i] \in {"%q", "%s"}
                /\ IsQuotedSpan(tokens[i]) =>
                       /\ c.format[i] = "%q"
                       /\ c.parameters[i] = SubSeq(tokens[i], 2, Len(tokens[i]) - 1)
                /\ ~Contains(tokens[i], DoubleQuote) =>
                       /\ c.format[i] = "%s"
                       /\ c.parameters[i] = tokens[i]
            /\ (Len(body) >= 2 /\ body[2] # Space) =>
                   /\ tokens # <<>>
                   /\ tokens[1] = SubSeq(body, 2, Len(tokens[1]) + 1)

C28_Witness ==
    /\ Parsed
    /\ command = <<"a", DoubleQuote, Space, DoubleQuote>>
    /\ parsed.err = NoError
    /\ parsed.cmd = NewCommand("a", <<"%q">>, << <<Space>> >>)


\* C27: serialising what was parsed is idempotent: a body parsed and
\* serialised, then parsed and serialised once more, gives the same wire form.
C27_SerializeParseIdempotent ==
    stage = "done" => wireForm2 = wireForm

\* C26: parsing the wire form of a command gives the command back: the same
\* opcode, the same parameters in order, the same verbs.
C26_ParseInvertsString ==
    (stage \in {"reparsed", "done"}) =>
        /\ reparsed.err = NoError
        /\ reparsed.cmd = parsed.cmd


(***************************************************************************)
(* WireSpec: Protocol.Write byte by byte. Two callers write two frames     *)
(* each, one after the other; the transport takes a frame's bytes one by   *)
(* one, so that writes not held apart would mix on it.                     *)
(***************************************************************************)
\* the frames a caller writes, in program order
WireProgram(c) ==
    IF c = "c1"
    THEN <<NewCommand("t", <<"%s">>, << <<"3">> >>), NewCommand("E", <<>>, <<>>)>>
    ELSE <<NewCommand("1", <<"%s">>, << <<"M", "A", "I", "N">> >>),
           NewCommand("0", <<>>, <<>>)>>

\* command.Bytes() of the frame the caller is writing
WireBytes(c) == Bytes(WireProgram(c)[wnext[c]])

wireRest == <<gateVars, callerVars, groupVars, readerVars, subVars, listenerVars,
              histVars, portVars, firstSubscriber, writeErr, isActive, traceVars,
              moreVars, codecVars, frameVars>>

WriteLockFree_mutNoLock == TRUE

\* p.writeLock is unlocked
WriteLockFree == writeLock = None

\* Write: p.writeLock.Lock()
Write_Lock(c) ==
    /\ wpc[c] = "idle"
    /\ wnext[c] <= Len(WireProgram(c))
    /\ WriteLockFree
    /\ writeLock' = c
    /\ wpc' = [wpc EXCEPT ![c] = "port"]
    /\ woff' = [woff EXCEPT ![c] = 0]
    /\ UNCHANGED <<transport, wnext, wireRest>>

\* p.port.Write(command.Bytes()): the next byte reaches the transport
port_Write(c) ==
    /\ wpc[c] = "port"
    /\ woff[c] < Len(WireBytes(c))
    /\ transport' = Append(transport, [by |-> c, frame |-> wnext[c],
                                       byte |-> WireBytes(c)[woff[c] + 1]])
    /\ woff' = [woff EXCEPT ![c] = @ + 1]
    /\ UNCHANGED <<writeLock, wpc, wnext, wireRest>>

\* port.Write has returned; the deferred p.writeLock.Unlock(), Write returns
Write_Unlock(c) ==
    /\ wpc[c] = "port"
    /\ woff[c] = Len(WireBytes(c))
    /\ writeLock' = None
    /\ wpc' = [wpc EXCEPT ![c] = "idle"]
    /\ wnext' = [wnext EXCEPT ![c] = @ + 1]
    /\ UNCHANGED <<transport, woff, wireRest>>

WireNext ==
    \/ \E c \in Callers : Write_Lock(c)
    \/ \E c \in Callers : port_Write(c)
    \/ \E c \in Callers : Write_Unlock(c)

WireSpec == DefaultInit /\ [][WireNext]_vars

\* the bytes of one frame of one caller, as the transport received them
Received(c, k) ==
    LET picked == SelectSeq(transport, LAMBDA e : e.by = c /\ e.frame = k)
    IN  [i \in 1..Len(picked) |-> picked[i].byte]

\* C24: the bytes of one frame reach the transport as a unit, none of
\* another frame between them, ending with the frame's one newline, and
\* the frames of one caller in the order it wrote them.
C24_WritesAreOrdered ==
    /\ \A i, j \in 1..Len(transport) :
           (i < j /\ transport[i].by = transport[j].by
                  /\ transport[i].frame = transport[j].frame) =>
               \A m \in i..j : /\ transport[m].by = transport[i].by
                               /\ transport[m].frame = transport[i].frame
    /\ \A i, j \in 1..Len(transport) :
           (i < j /\ transport[i].by = transport[j].by) =>
               transport[i].frame <= transport[j].frame
    /\ \A c \in Callers : \A k \in 1..(wnext[c] - 1) :
           LET bytes == Received(c, k) IN
           /\ bytes = String(WireProgram(c)[k]) \o <<"\n">>
           /\ Cardinality({i \in 1..Len(bytes) : bytes[i] = "\n"}) = 1

\* both callers have written both frames, the second caller's first frame
\* between the first caller's two
C24_Witness ==
    /\ \A c \in Callers : wnext[c] = 3 /\ wpc[c] = "idle"
    /\ transport[1].by = "c1"
    /\ transport[Len(String(WireProgram("c1")[1])) + 2].by = "c2"
    /\ transport[Len(transport)].by = "c2"


(***************************************************************************)
(* MatchSpec: a ReadOpCode (Status, for the opcode i) and a ReadCommand    *)
(* (Sensor.Wait, for <Q 7>) while the station sends frames of its own.     *)
(***************************************************************************)
MatchProgram(c) == IF c = "c1" THEN {"status"} ELSE {"wait"}

\* what the station sends unasked
MatchFrames == {FrameSensorActive, FrameSensorOther, FrameStatus, FrameCabs}

MatchNext ==
    \/ \E c \in Callers : \E k \in MatchProgram(c) : Call(c, k)
    \/ \E c \in Callers : CancelCtx(c)
    \/ \E c \in Callers : Session_Lock(c)
    \/ \E c \in Callers, ok \in BOOLEAN : Group_write(c, ok)
    \/ \E c \in Callers : Group_reader_return(c)
    \/ \E c \in Callers : Persist_return(c)
    \/ \E c \in Callers : Session_Unlock(c)
    \/ \E c \in Callers : Wait_return(c)
    \/ listen_gate
    \/ listen_read_pending
    \/ \E s \in Subs : Read_register(s)
    \/ \E s \in Subs : cleanup_close(s)
    \/ \E s \in Subs : cleanup_delete(s)
    \/ \E s \in Subs : Reader_recv(s)
    \/ \E s \in Subs : Reader_ctxDone(s)
    \/ \E f \in MatchFrames : listen_read(f)
    \/ \E s \in Subs : notifyF_send(s)
    \/ \E s \in Subs : notifyF_cancelled(s)

MatchSpec == DefaultInit /\ [][MatchNext]_vars

\* a frame as a Command: every parameter a bare token
CommandOf(f) ==
    NewCommand(f[1], [i \in 1..(Len(f) - 1) |-> "%s"],
               [i \in 1..(Len(f) - 1) |-> <<f[i + 1]>>])

\* the caller of a reading call takes the frame its subscription holds
Receives(s) ==
    /\ rpc[s] = "loop"
    /\ relay[s] = "send"
    /\ relay'[s] = "recv"

\* whether the frame is the one the reading call was asked for: the opcode
\* for ReadOpCode, the whole serialized command for ReadCommand
Requested_by_content(s, f) ==
    CASE op[Owner(s)] = "status" -> CommandOf(f).opCode = OpCodeStatusResponse
      [] op[Owner(s)] = "wait" -> String(CommandOf(f)) = String(CommandOf(FrameSensorActive))
      [] OTHER -> FALSE

\* C25: a reading call returns at the first frame it receives that has the
\* requested content, opcode for ReadOpCode and serialized form for
\* ReadCommand, whatever the frame's position, and goes on at any other.
C25_MatchedByContent ==
    [][\A s \in Subs :
           Receives(s) =>
               IF Requested_by_content(s, held[s])
               THEN rres'[s] = "ok" /\ rpc'[s] = "cl_wait"
               ELSE rres'[s] = rres[s] /\ rpc'[s] = "loop"]_vars


\* Status has skipped the <# 50> it received first and returned at the <i ...>
C25_Witness ==
    /\ op["c1"] = "status"
    /\ rres[R("c1")] = "ok"
    /\ got[R("c1")] = <<FrameCabs, FrameStatus>>


\* C30 as stated: in Status, SupportedCabs and Examine the subscription for
\* the reply is registered before the request is written: whenever the
\* writing goroutine has called Write, the reading one has registered.
C30_RegisteredBeforeWritten ==
    \A c \in Callers :
        (op[c] \in {"status", "cabs", "examine"} /\ wr[c] = "done") =>
            rpc[R(c)] # "reg"


(***************************************************************************)
(* The listener's dispatch against a subscription's cleanup.               *)
(***************************************************************************)
\* C31: the listener never sends on a closed ingress channel: no
\* subscription the dispatch has still to visit has its ingress closed; the
\* cancellation flag is closed before ingress is, and ingress is closed in
\* the same critical section that takes the entry out of the registry.
C31_NoSendOnClosedIngress ==
    /\ [](/\ lst = "dispatch" => ltodo \cap ingressClosed = {}
          /\ ingressClosed \subseteq cancelledC
          /\ reg \cap ingressClosed = {})
    /\ [][\A s \in Subs : (s \in ltodo /\ s \notin ltodo') => s \notin ingressClosed]_vars

\* the dispatch has a subscription to visit whose cleanup has closed the
\* cancellation flag and waits for the registry lock
C31_Witness ==
    /\ lst = "dispatch"
    /\ \E s \in ltodo : s \in cancelledC /\ rpc[s] = "cl_lock"


\* the cleanup of the subscription has started and has not returned
Cleaning(s) == rpc[s] \in {"cl_wait", "cl_lock"}

\* C32: once a subscription's cleanup has started, the dispatch's visit of
\* that subscription completes, the relay taking the frame to drop it or the
\* cancellation flag ending the select, and the cleanup gets the registry
\* lock and returns.
C32_CleanupAndDispatchComplete ==
    \A c \in Callers :
        Cleaning(R(c)) ~> (rpc[R(c)] = "ret" /\ ~(lst = "dispatch" /\ R(c) \in ltodo))

\* the dispatch has still to visit a subscription whose cleanup has started
\* while the relay has returned: only the cancellation flag ends the select
C32_Witness ==
    /\ lst = "dispatch"
    /\ \E s \in ltodo : Cleaning(s) /\ relay[s] = "done"


(***************************************************************************)
(* FramingSpec: the listener's loop over the bytes port.Read returns. The  *)
(* transport holds a stream of bytes and hands it over in reads of any     *)
(* length.                                                                 *)
(***************************************************************************)
\* the longest stream on the transport
MaxStream == 5

Newline == "\n"
StreamBytes == {"<", ">", Newline, "a", "b"}

RECURSIVE StreamsUpTo(_)
StreamsUpTo(n) ==
    IF n = 0 THEN {<<>>}
    ELSE LET shorter == StreamsUpTo(n - 1) IN
         shorter \cup {Append(b, ch) : b \in {x \in shorter : Len(x) = n - 1},
                                       ch \in StreamBytes}

Streams == StreamsUpTo(MaxStream)

notifyF_parse_mutDeliver(stringCommand, sent) ==
    Append(sent, NewCommandFromString(stringCommand).cmd)

\* notifyF: the string is parsed; on an error it returns, else the command
\* is sent to the subscriptions
notifyF_parse(stringCommand, sent) ==
    LET r == NewCommandFromString(stringCommand) IN
    IF r.err # NoError THEN sent ELSE Append(sent, r.cmd)

\* the body of `for _, receivedByte := range buf[:n]` for one byte
listen_byte(st, receivedRune) ==
    IF receivedRune = "<"
    THEN [st EXCEPT !.commandReading = TRUE]
    ELSE LET after ==
                 IF receivedRune = ">"
                 THEN [commandRunes |-> <<>>,
                       commandReading |-> FALSE,
                       notified |-> Append(st.notified, st.commandRunes),
                       dispatched |-> notifyF_parse(st.commandRunes, st.dispatched)]
                 ELSE st
         IN  IF receivedRune = Newline THEN after
             ELSE IF after.commandReading
             THEN [after EXCEPT !.commandRunes = Append(@, receivedRune)]
             ELSE after

\* the loop over the bytes of one read
RECURSIVE listen_bytes(_, _)
listen_bytes(st, bytes) ==
    IF bytes = <<>> THEN st
    ELSE listen_bytes(listen_byte(st, Head(bytes)), Tail(bytes))

ListenState ==
    [commandRunes |-> commandRunes, commandReading |-> commandReading,
     notified |-> notified, dispatched |-> dispatched]

\* commandRunes := []rune{}; commandReading := false, before the loop
ListenStart ==
    [commandRunes |-> <<>>, commandReading |-> FALSE,
     notified |-> <<>>, dispatched |-> <<>>]

AcrossReads_mutReset(st) ==
    [st EXCEPT !.commandRunes = <<>>, !.commandReading = FALSE]

\* commandRunes and commandReading are declared before the for loop: a read
\* goes on where the one before has stopped
AcrossReads(st) == st

frameRest == <<gateVars, callerVars, groupVars, readerVars, subVars, listenerVars,
               histVars, portVars, firstSubscriber, writeErr, isActive, traceVars,
               moreVars, codecVars, wireVars>>

\* n, err := p.port.Read(buf) returns the next n bytes, and the loop over them
port_Read(n) ==
    /\ n <= Len(stream)
    /\ LET st == listen_bytes(AcrossReads(ListenState), SubSeq(stream, 1, n)) IN
       /\ commandRunes' = st.commandRunes
       /\ commandReading' = st.commandReading
       /\ notified' = st.notified
       /\ dispatched' = st.dispatched
    /\ consumed' = consumed \o SubSeq(stream, 1, n)
    /\ stream' = SubSeq(stream, n + 1, Len(stream))
    /\ UNCHANGED frameRest

FramingInit ==
    /\ InitState
    /\ lst = "read"
    /\ pending = <<>>
    /\ portErr = <<EIO>>
    /\ stage = "off"
    /\ command = <<>>
    /\ stream \in Streams

FramingNext ==
    \/ \E n \in 1..MaxStream : port_Read(n)

FramingSpec == FramingInit /\ [][FramingNext]_vars


\* the frames of a byte stream if every < discarded what was accumulated:
\* what stands, newlines left out, between a > and the last < before it
RECURSIVE FramesAfterLastOpen(_, _, _)
FramesAfterLastOpen(bytes, runes, reading) ==
    IF bytes = <<>> THEN <<>>
    ELSE LET b == Head(bytes) IN
         IF b = "<" THEN FramesAfterLastOpen(Tail(bytes), <<>>, TRUE)
         ELSE IF b = ">" THEN <<runes>> \o FramesAfterLastOpen(Tail(bytes), <<>>, FALSE)
         ELSE IF b = Newline \/ ~reading THEN FramesAfterLastOpen(Tail(bytes), runes, reading)
         ELSE FramesAfterLastOpen(Tail(bytes), Append(runes, b), reading)

\* C33 as stated: at < the listener discards what it has accumulated, so the
\* frame emitted at the next > holds only the bytes, newlines left out,
\* received after the most recent <.
C33_OpenDiscardsAccumulated ==
    notified = FramesAfterLastOpen(consumed, <<>>, FALSE)

Count(str, ch) == Cardinality({k \in 1..Len(str) : str[k] = ch})

\* C34: the frames emitted depend only on the bytes read so far, not on the
\* reads they came in: the listener is where one read of all the bytes
\* would have brought it. No emitted frame holds a newline, and a frame
\* ends at a > only.
C34_FramesIndependentOfReads ==
    /\ ListenState = listen_bytes(ListenStart, consumed)
    /\ \A k \in 1..Len(notified) : ~Contains(notified[k], Newline)
    /\ Len(notified) = Count(consumed, ">")

\* a frame with a newline in it, a read having ended within the frame
C34_Witness ==
    /\ consumed = <<"<", "a", Newline>>
    /\ stream = <<"b", ">">>
    /\ commandReading
    /\ commandRunes = <<"a">>

\* C35: a frame whose body does not parse reaches no subscriber and the
\* listener goes on: what has been sent to the subscriptions is, in order,
\* the command of every emitted frame that parses.
C35_ParseFailureSkipped ==
    LET parsable == SelectSeq(notified, LAMBDA body : body # <<>>) IN
    /\ Len(dispatched) = Len(parsable)
    /\ \A k \in 1..Len(parsable) :
           dispatched[k] = NewCommandFromString(parsable[k]).cmd

\* <> has been emitted and skipped, the frame after it dispatched
C35_Witness ==
    /\ notified = << <<>>, <<"a">> >>
    /\ dispatched = <<NewCommand("a", <<>>, <<>>)>>


(***************************************************************************)
(* The cache of the last written frame.                                    *)
(***************************************************************************)
\* the frame of the last write the transport took
LastWritten == IF written = <<>> THEN NoFrame ELSE written[Len(written)][2]

\* C36 as stated: the cache changes on a successful write only: it holds the
\* frame of the last successful write, also after a write that failed.
C36_CacheOnlyOnSuccess ==
    commandCache = LastWritten

\* the caller's first write of its session body, and its errgroup's write
Writes1(c) == pc[c] = "write1" /\ pc'[c] # "write1"
WritesGroup(c) == wr[c] = "pending" /\ wr'[c] = "done"

\* C36 amended: the cache holds the frame of the last write attempted
\* through the gate: every write sets it to its frame, the failing ones
\* too, and nothing else changes it; after a successful write it is the
\* frame the transport took.
C36_CacheHoldsLastAttempt ==
    [][/\ \A c \in Callers :
            /\ Writes1(c) =>
                   commandCache' = IF op[c] = "speed" THEN FrameCabSpeed
                                   ELSE FrameSensorCreate
            /\ WritesGroup(c) => commandCache' = GroupFrame(op[c])
       /\ commandCache' # commandCache =>
              \E c \in Callers : Writes1(c) \/ WritesGroup(c)
       /\ written' # written => commandCache' = written'[Len(written')][2]]_vars

\* a write has failed after another one had succeeded: the cache holds the
\* frame that was not written
C36_Witness ==
    /\ writeErr["c1"] # NoError
    /\ written # <<>>
    /\ commandCache = FrameCabSpeed
    /\ LastWritten = FrameTurnoutExamine


(***************************************************************************)
(* The failure watcher of SessionSuccess.                                  *)
(***************************************************************************)
\* C37 as stated: the watcher's subscription is registered before the body
\* performs its first write: whenever the body's writer has called Write,
\* the watcher's ReadOpCode has registered.
C37_WatcherRegisteredBeforeWrite ==
    \A c \in Callers :
        (op[c] = "examine" /\ pc[c] = "wait_g" /\ wr[c] = "done") =>
            rpc[W(c)] # "reg"

\* C38 as stated: SessionSuccess fails with the device-failure error only
\* for an X that answers a frame written within the same session: the frame
\* its error names is the one the failing session has handed to Write, not
\* the frame of an earlier session and not the empty cache.
C38_FailureFromOwnSession ==
    \A c \in Callers :
        (Returning(c) /\ result[c] = "fail") => errNamed[c] = GroupFrame(op[c])


\* SuccessSpec: two callers each run TurnoutServo.Examine, i.e. two
\* SessionSuccess calls, on the channel.
SuccessProgram(c) == {"examine"}

SuccessNext ==
    \/ \E c \in Callers : \E k \in SuccessProgram(c) : Call(c, k)
    \/ \E c \in Callers : CancelCtx(c)
    \/ \E c \in Callers : Session_Lock(c)
    \/ \E c \in Callers, ok \in BOOLEAN : Group_write(c, ok)
    \/ \E c \in Callers : Group_reader_return(c)
    \/ \E c \in Callers : sessionF_return(c)
    \/ \E c \in Callers : watcher_return(c)
    \/ \E c \in Callers : SessionSuccess_return(c)
    \/ \E c \in Callers : Session_Unlock(c)
    \/ ProtocolNext

SuccessSpec == Init /\ [][SuccessNext]_vars

\* C39: an X frame reaches the failure watcher of one SessionSuccess at
\* most: a watcher's subscription is in the registry, in the dispatch or
\* carrying a frame only while its own call holds the session gate.
C39_OneWatcherPerFailure ==
    \A c \in Callers :
        (\/ W(c) \in reg
         \/ lst = "dispatch" /\ W(c) \in ltodo
         \/ relay[W(c)] = "send") => sessionLock = c

\* the first call has returned after an X, the last frame parsed; the second
\* holds the gate with its watcher registered and has received nothing
C39_Witness ==
    /\ nops["c1"] = 1 /\ pc["c1"] = "idle"
    /\ sessionLock = "c2"
    /\ W("c2") \in reg
    /\ lframe = FrameFail /\ emitted = 1 /\ lst = "read"
    /\ relay[W("c2")] = "recv"


\* C40 as stated: a subscriber that stops receiving and never calls its
\* cleanup handle holds up nobody else: the listener finishes every dispatch,
\* another caller's registration is entered and another caller's cleanup
\* returns. A panic of the program is not counted against the claim.
C40_StalledSubscriberIsolated ==
    /\ (lst = "dispatch") ~> (lst = "read" \/ crashed)
    /\ \A c \in Callers :
        (op[c] = "wait" /\ rpc[R(c)] = "reg") ~> (rpc[R(c)] # "reg" \/ crashed)
    /\ \A c \in Callers :
        (op[c] = "wait" /\ rpc[R(c)] \in {"cl_wait", "cl_lock"})
            ~> (rpc[R(c)] = "ret" \/ crashed)

=============================================================================
